---------------------------- MODULE Spec2Model ----------------------------
(***************************************************************************)
(* Model of the EXPORT-format codec of the Hobbit cutscene editor:         *)
(*   - the encoder  (exportCinema / exportAction / exportCameraPath /      *)
(*     exportMultipleCinemas and the format* helpers),                     *)
(*   - the decoder  (parseCinemaFile / parseSingleCinema / parseValues and *)
(*     the parse* helpers),                                                *)
(*   - the record types and default factories.                             *)
(*                                                                         *)
(* Text is modelled by TLA+ strings, character by character: TLC evaluates *)
(* Len, SubSeq and \o on strings, so a JavaScript string is its TLA+       *)
(* string and the code's per-character loops are applied per character.    *)
(*                                                                         *)
(* A JavaScript number is the record [i |-> floor(x), f |-> the fraction   *)
(* above the floor in units of 10^-7]; NaN is the record with f = -1.      *)
(***************************************************************************)
EXTENDS Integers, Sequences, FiniteSets, TLC

-----------------------------------------------------------------------------
(* JavaScript string built-ins *)

\* s[k] for a 1-based k ("" outside the string, where JS gives undefined)
CharAt(s, k) == IF k >= 1 /\ k <= Len(s) THEN SubSeq(s, k, k) ELSE ""

\* String.prototype.slice for 1-based inclusive bounds, clamped to the string
Slice(s, a, b) ==
  LET lo == IF a < 1 THEN 1 ELSE a
      hi == IF b > Len(s) THEN Len(s) ELSE b
  IN  IF lo > hi THEN "" ELSE SubSeq(s, lo, hi)

\* the characters String.prototype.trim and the regex class \s remove
WhiteSpace == {" ", "\t", "\r", "\n", "\f"}

IsSpace(c) == c \in WhiteSpace

\* the number of white-space characters s starts with
LeadSpace(s) == Cardinality({k \in 1..Len(s) : \A j \in 1..k : IsSpace(CharAt(s, j))})

\* the number of white-space characters s ends with
TrailSpace(s) == Cardinality({k \in 1..Len(s) : \A j \in k..Len(s) : IsSpace(CharAt(s, j))})

\* String.prototype.trim
trim(s) ==
  IF LeadSpace(s) = Len(s) THEN "" ELSE SubSeq(s, LeadSpace(s) + 1, Len(s) - TrailSpace(s))

\* String.prototype.startsWith
startsWith(s, p) == Len(s) >= Len(p) /\ SubSeq(s, 1, Len(p)) = p

\* String.prototype.endsWith
endsWith(s, p) == Len(s) >= Len(p) /\ SubSeq(s, Len(s) - Len(p) + 1, Len(s)) = p

\* String.prototype.includes, for a one-character needle
includes(s, c) == \E k \in 1..Len(s) : CharAt(s, k) = c

RECURSIVE Spaces(_)
Spaces(n) == IF n <= 0 THEN "" ELSE " " \o Spaces(n - 1)

\* String.prototype.padEnd with the default fill character
padEnd(s, w) == s \o Spaces(w - Len(s))

\* the k-th smallest member of a finite set of integers
Nth(S, k) == CHOOSE x \in S : Cardinality({y \in S : y < x}) = k - 1

\* the j-th cut position among cuts, with 0 before the first piece and n + 1
\* after the last
CutAt(cuts, j, n) ==
  IF j = 0 THEN 0 ELSE IF j = Cardinality(cuts) + 1 THEN n + 1 ELSE Nth(cuts, j)

\* the pieces of s between the one-character cuts
Pieces(s, cuts) ==
  [j \in 1..(Cardinality(cuts) + 1) |->
     SubSeq(s, CutAt(cuts, j - 1, Len(s)) + 1, CutAt(cuts, j, Len(s)) - 1)]

\* String.prototype.split with a separator that is a set of characters, one
\* separator character per cut (split('\n'), split(' '), split(':'))
SplitOn(s, seps) == Pieces(s, {k \in 1..Len(s) : CharAt(s, k) \in seps})

\* the last position of the run of white space that starts at position a
RunEnd(s, a) ==
  a + Cardinality({k \in a..Len(s) : \A j \in a..k : IsSpace(CharAt(s, j))}) - 1

\* the pieces of s between the runs of white space that start at starts
PiecesWS(s, starts) ==
  [j \in 1..(Cardinality(starts) + 1) |->
     SubSeq(s,
            (IF j = 1 THEN 0 ELSE RunEnd(s, Nth(starts, j - 1))) + 1,
            (IF j = Cardinality(starts) + 1 THEN Len(s) + 1 ELSE Nth(starts, j)) - 1)]

\* String.prototype.split(/\s+/): one cut per run of white space
SplitWS(s) ==
  PiecesWS(s, {k \in 1..Len(s) : IsSpace(CharAt(s, k)) /\ ~IsSpace(CharAt(s, k - 1))})

\* Array.prototype.join
RECURSIVE join(_, _)
join(parts, sep) ==
  IF Len(parts) = 0 THEN ""
  ELSE IF Len(parts) = 1 THEN parts[1]
  ELSE parts[1] \o sep \o join(Tail(parts), sep)

-----------------------------------------------------------------------------
(* JavaScript numbers *)

\* units of the fraction field: 10^7 per 1.0, one digit below what toFixed(6)
\* keeps, so that the formatter's rounding is visible
Unit == 10 ^ 7

Num(i) == [i |-> i, f |-> 0]

\* the number whose decimal expansion is i + f7/10^7, for i >= 0
Dec(i, f7) == [i |-> i, f |-> f7]

\* the negation of a number
Neg(x) == IF x.f = 0 THEN [i |-> 0 - x.i, f |-> 0] ELSE [i |-> 0 - x.i - 1, f |-> Unit - x.f]

NaN == [i |-> 0, f |-> -1]

IsNaN(x) == x.f = -1

IsNegative(x) == ~IsNaN(x) /\ x.i < 0

\* |x| as integer part and 10^-7 fraction
Magnitude(x) == IF x.i >= 0 THEN x ELSE Neg(x)

\* Math.floor
floor(x) == IF IsNaN(x) THEN NaN ELSE [i |-> x.i, f |-> 0]

\* x || 0 : NaN and 0 are falsy
OrZero(x) == IF IsNaN(x) THEN Num(0) ELSE x

Digits == {"0", "1", "2", "3", "4", "5", "6", "7", "8", "9"}

DigitChar(d) == SubSeq("0123456789", d + 1, d + 1)

DigitVal(c) == CHOOSE d \in 0..9 : DigitChar(d) = c

\* Number.prototype.toString of a non-negative integer
RECURSIVE NatToStr(_)
NatToStr(n) == IF n < 10 THEN DigitChar(n) ELSE NatToStr(n \div 10) \o DigitChar(n % 10)

\* n left-padded with zeros to w digits
RECURSIVE ZeroPad(_, _)
ZeroPad(n, w) == IF w <= 0 THEN "" ELSE ZeroPad(n \div 10, w - 1) \o DigitChar(n % 10)

\* a digit string without its trailing zeros
RECURSIVE StripZeros(_)
StripZeros(s) == IF endsWith(s, "0") THEN StripZeros(SubSeq(s, 1, Len(s) - 1)) ELSE s

\* the sign Number.prototype.toString and toFixed print
SignStr(x) == IF IsNegative(x) THEN "-" ELSE ""

\* toString of the magnitude m
MagnitudeToString(m) ==
  IF m.f = 0 THEN NatToStr(m.i)
  ELSE IF m.i = 0 /\ m.f < 10 THEN DigitChar(m.f) \o "e-7"
  ELSE NatToStr(m.i) \o "." \o StripZeros(ZeroPad(m.f, 7))

\* Number.prototype.toString: integers print without a point, magnitudes
\* below 10^-6 print in exponent form (4e-7), anything else as a decimal
\* with the shortest fraction
toString(x) == IF IsNaN(x) THEN "NaN" ELSE SignStr(x) \o MagnitudeToString(Magnitude(x))

\* the magnitude m rounded to 6 fractional digits: r is its fraction in
\* 10^-6 units after rounding half up
FixedDigits(m, r) ==
  IF r = Unit \div 10 THEN NatToStr(m.i + 1) \o "." \o ZeroPad(0, 6)
  ELSE NatToStr(m.i) \o "." \o ZeroPad(r, 6)

\* toFixed(6) of the magnitude m
MagnitudeToFixed6(m) == FixedDigits(m, (m.f + 5) \div 10)

\* Number.prototype.toFixed(6)
toFixed6(x) == IF IsNaN(x) THEN "NaN" ELSE SignStr(x) \o MagnitudeToFixed6(Magnitude(x))

\* the value of a digit string
RECURSIVE DigitsVal(_)
DigitsVal(s) ==
  IF s = "" THEN 0 ELSE DigitsVal(SubSeq(s, 1, Len(s) - 1)) * 10 + DigitVal(CharAt(s, Len(s)))

\* the length of the run of digits of s that starts at position p
DigitRun(s, p) == Cardinality({k \in p..Len(s) : \A j \in p..k : CharAt(s, j) \in Digits})

\* m * 10^e on the fixed-point magnitude m
RECURSIVE Scale10(_, _)
Scale10(m, e) ==
  IF e = 0 THEN m
  ELSE IF e < 0 THEN Scale10([i |-> m.i \div 10, f |-> (m.i % 10) * (Unit \div 10) + m.f \div 10], e + 1)
  ELSE Scale10([i |-> m.i * 10 + m.f \div (Unit \div 10), f |-> (m.f % (Unit \div 10)) * 10], e - 1)

\* the fixed-point magnitude of a digits and b fraction digits from position p1
Mantissa(s, p1, a, b) ==
  [i |-> DigitsVal(SubSeq(s, p1, p1 + a - 1)),
   f |-> DigitsVal(SubSeq(s, p1 + a + 1, p1 + a + (IF b > 7 THEN 7 ELSE b))
                     \o SubSeq("0000000", 1, 7 - (IF b > 7 THEN 7 ELSE b)))]

\* the value of the exponent digits from position p3
ExponentDigits(s, negative, p3) ==
  IF negative THEN 0 - DigitsVal(SubSeq(s, p3, p3 + DigitRun(s, p3) - 1))
  ELSE DigitsVal(SubSeq(s, p3, p3 + DigitRun(s, p3) - 1))

\* the exponent that starts at position p2, 0 when there is none
Exponent(s, p2) ==
  IF CharAt(s, p2) \in {"e", "E"}
  THEN ExponentDigits(s, CharAt(s, p2 + 1) = "-",
                      IF CharAt(s, p2 + 1) \in {"-", "+"} THEN p2 + 2 ELSE p2 + 1)
  ELSE 0

\* the number read from a digits, and b fraction digits after a point
ParseNumber(s, negative, p1, a, b) ==
  IF a = 0 /\ b = 0 THEN NaN
  ELSE IF negative
  THEN Neg(Scale10(Mantissa(s, p1, a, b),
                   Exponent(s, IF CharAt(s, p1 + a) = "." THEN p1 + a + 1 + b ELSE p1 + a)))
  ELSE Scale10(Mantissa(s, p1, a, b),
               Exponent(s, IF CharAt(s, p1 + a) = "." THEN p1 + a + 1 + b ELSE p1 + a))

\* the digits before the point: a of them from position p1
ParseFraction(s, negative, p1, a) ==
  ParseNumber(s, negative, p1, a,
              IF CharAt(s, p1 + a) = "." THEN DigitRun(s, p1 + a + 1) ELSE 0)

\* the optional sign at position p0
ParseSign(s, p0) ==
  ParseFraction(s, CharAt(s, p0) = "-",
                IF CharAt(s, p0) \in {"-", "+"} THEN p0 + 1 ELSE p0,
                DigitRun(s, IF CharAt(s, p0) \in {"-", "+"} THEN p0 + 1 ELSE p0))

\* Number.parseFloat: skips leading white space, reads the longest prefix
\* [sign] digits [. digits] [e [sign] digits]; NaN when there is no digit
parseFloat(str) == ParseSign(str, LeadSpace(str) + 1)

-----------------------------------------------------------------------------
(* Record types and default factories *)

ActionTypes == {"camera", "dialog", "pop", "fade", "charAnim", "objAnim", "trigger"}

ACTION_TYPE_MAP ==
  [t \in ActionTypes |->
     CASE t = "charAnim" -> 2
       [] t = "camera" -> 4
       [] t = "dialog" -> 5
       [] t = "pop" -> 6
       [] t = "fade" -> 8
       [] t = "objAnim" -> 9
       [] t = "trigger" -> 10]

\* ACTION_TYPE_REVERSE[n], "" where the table has no entry (undefined)
ACTION_TYPE_REVERSE(n) ==
  CASE n = Num(2) -> "charAnim"
    [] n = Num(4) -> "camera"
    [] n = Num(5) -> "dialog"
    [] n = Num(6) -> "pop"
    [] n = Num(8) -> "fade"
    [] n = Num(9) -> "objAnim"
    [] n = Num(10) -> "trigger"
    [] OTHER -> ""

createDefaultShot(id, index) ==
  [id |-> id, index |-> index, name |-> "Shot " \o NatToStr(index),
   nextShot |-> Num(index + 1), skipShot |-> Num(index + 1),
   maxTime |-> Num(10), time |-> Num(0)]

createDefaultSyncPoint(id, index, shot) ==
  [id |-> id, index |-> index,
   name |-> "Shot " \o NatToStr(shot) \o ", Sync " \o NatToStr(index),
   type |-> IF index = 0 THEN Num(0) ELSE Num(1),
   action |-> Num(0), offset |-> Num(0), shot |-> Num(shot), fromEnd |-> Num(1),
   absoluteTimeStart |-> Num(0)]

\* the fields every action variant has (BaseAction, without type and typeNum)
DefaultBase(id, index) ==
  [id |-> id, index |-> index, name |-> "Action " \o NatToStr(index),
   shot |-> Num(0), offset |-> Num(0), duration |-> Num(1), syncPoint |-> Num(0),
   finishShot |-> Num(1), defaultLength |-> Num(1)]

\* { ...base, <fields> }: the fields of ext, and those of base that ext lacks
Spread(base, ext) ==
  [k \in DOMAIN base \cup DOMAIN ext |-> IF k \in DOMAIN ext THEN ext[k] ELSE base[k]]

Zero3 == <<Num(0), Num(0), Num(0)>>

DefaultFOV == Dec(1, 2566370)

createDefaultAction(id, type, index) ==
  LET base == DefaultBase(id, index) IN
  CASE type = "camera" ->
         Spread(base, [type |-> "camera", typeNum |-> Num(4), cameraType |-> Num(0),
                       target |-> "00000000_00000000", relative |-> Num(0),
                       startOrient |-> Zero3, endOrient |-> Zero3, startOffset |-> Zero3,
                       endOffset |-> Zero3, targetOffset |-> Zero3,
                       startFOV |-> DefaultFOV, endFOV |-> DefaultFOV,
                       transitionPop |-> Num(0), loop |-> Num(0), endSyncPoint |-> Num(0)])
    [] type = "dialog" ->
         Spread(base, [type |-> "dialog", typeNum |-> Num(5), speaker |-> "ABCABCAB_CABCABC0",
                       sample |-> "Dialog text here", forceEnd |-> Num(1),
                       positional |-> Num(0)])
    [] type = "pop" ->
         Spread(base, [type |-> "pop", typeNum |-> Num(6), object |-> "ABCABCAB_CABCABC0",
                       location |-> "00000000_00000000", facing |-> "00000000_00000000",
                       setFacing |-> Num(1), anim |-> ""])
    [] type = "fade" ->
         Spread(base, [type |-> "fade", typeNum |-> Num(8), fxType |-> Num(1),
                       magnitude |-> Dec(0, 1500000), frequency |-> Num(20),
                       rolling |-> Num(0), fadeout |-> Num(0),
                       color |-> <<Num(0), Num(0), Num(0), Num(255)>>, targetVal |-> Num(0)])
    [] type = "charAnim" ->
         Spread(base, [type |-> "charAnim", typeNum |-> Num(2),
                       character |-> "00000000_00000000", animName |-> "AnimName",
                       length |-> Num(1), animGroup |-> "anim_group.anim",
                       animatedInPlace |-> Num(1), loops |-> Num(0), animsToPlay |-> Num(0)])
    [] type = "objAnim" ->
         Spread(base, [type |-> "objAnim", typeNum |-> Num(9), object |-> "00000000_00000000",
                       animName |-> "", startAnimating |-> Num(1), looping |-> Num(0),
                       hideWhenDone |-> Num(1), setToEndOnSkip |-> Num(1)])
    [] type = "trigger" ->
         Spread(base, [type |-> "trigger", typeNum |-> Num(10), triggerName |-> "TriggerName"])

createDefaultCinemaProperties ==
  [doesCameraColl |-> Num(1), doesCameraFade |-> Num(1), lightChannels |-> Num(1),
   objectFlags |-> Num(432), scriptResource |-> "", initialPos |-> Zero3,
   orientation |-> Zero3,
   localBoundingBox |-> <<Num(-1), Num(-1), Num(-1), Num(1), Num(1), Num(1)>>,
   objSaveFlag |-> Num(1), repeatable |-> Num(1), popAtEnd |-> Num(0), cinematic |-> Num(1),
   time |-> Num(0), initialShot |-> Num(0), bilboInvisible |-> Num(0),
   hasIntroTrans |-> Num(0), hasOutroTrans |-> Num(0), skippable |-> Num(1),
   isDeathCinema |-> Num(0), forceNoWeapon |-> Num(0), forceUseStick |-> Num(0),
   forceUseSting |-> Num(0), letterbox |-> Num(1), disableControl |-> Num(0),
   bypassQueue |-> Num(0), lowPriority |-> Num(0), subtitleInBox |-> Num(0)]

createDefaultKeyframe ==
  [posX |-> Num(0), posY |-> Num(0), posZ |-> Num(0), oriX |-> Num(0), oriY |-> Num(0),
   oriZ |-> Num(0), oriW |-> Num(0)]

createDefaultCameraPath(id, guidSuffix) ==
  [id |-> id, guid |-> "CA3DDD8F_" \o guidSuffix, pos |-> Zero3, orient |-> Zero3,
   scale |-> <<Num(1), Num(1), Num(1)>>,
   bBox |-> <<Num(0), Num(0), Num(0), Num(0), Num(0), Num(0)>>, loops |-> Num(1),
   range |-> Zero3, min |-> Zero3, playSpeed |-> Num(1), camPosOffset |-> Zero3,
   camRotOffset |-> Zero3, lookatGuid |-> "ABCABCAB_CABCABC0", lookatOffset |-> Zero3,
   fromCenter |-> Num(0), interpolate |-> Num(1), lookspring |-> Num(0),
   keyframes |-> <<createDefaultKeyframe>>]

createDefaultCinema(shotId, syncId) ==
  [guid |-> "CA3DDD8F_11110000", objName |-> "New Cinema", duration |-> Num(5),
   properties |-> createDefaultCinemaProperties,
   shots |-> <<createDefaultShot(shotId, 0)>>,
   syncPoints |-> <<createDefaultSyncPoint(syncId, 0, 0)>>,
   actions |-> <<>>, participants |-> <<"ABCABCAB_CABCABC0">>, cameraPaths |-> <<>>]

-----------------------------------------------------------------------------
(* Encoder: numeric and string formatters *)

\* fixed.replace(/(\.\d*?)0+$/, '$1') and the two-decimal minimum that follows
TwoDecimals(stripped) ==
  IF endsWith(stripped, ".") THEN stripped \o "00"
  ELSE IF CharAt(stripped, Len(stripped) - 1) = "." THEN stripped \o "0"
  ELSE stripped

\* formatFloat before its padding
FloatResult(n) ==
  IF includes(toString(n), ".") THEN TwoDecimals(StripZeros(toFixed6(n))) ELSE toFixed6(n)

\* :f = float
formatFloat(n, minWidth) ==
  IF minWidth > 0 THEN padEnd(FloatResult(n), minWidth) ELSE FloatResult(n)

\* Array.prototype.map over a tuple
Map(F(_), arr) == [k \in 1..Len(arr) |-> F(arr[k])]

FloatStr(n) == formatFloat(n, 0)

\* :fff = three floats space separated
formatTripleFloat(arr) == join(Map(FloatStr, arr), " ")

\* :ffffff = six floats space separated
formatSixFloat(arr) == join(Map(FloatStr, arr), " ")

FloorStr(n) == toString(floor(n))

\* a colour written with three components: the slip C26 rules out
formatQuadIntTriple(arr) == join(SubSeq(Map(FloorStr, arr), 1, 3), " ")

\* :dddd = four integers space separated
formatQuadInt(arr) == join(Map(FloorStr, arr), " ")

\* :d = integer
formatInt(n, minWidth) ==
  IF minWidth > 0 THEN padEnd(toString(floor(n)), minWidth) ELSE toString(floor(n))

\* formatString without its quotes: the slip the round trip of C1 rules out
formatStringUnquoted(s, minWidth) == IF minWidth > 0 THEN padEnd(s, minWidth) ELSE s

\* :s = string (quoted)
formatString(s, minWidth) ==
  IF minWidth > 0 THEN padEnd("\"" \o s \o "\"", minWidth) ELSE "\"" \o s \o "\""

\* :g = GUID (unquoted)
formatGuid(g, minWidth) == IF minWidth > 0 THEN padEnd(g, minWidth) ELSE g

-----------------------------------------------------------------------------
(* Encoder: sections *)

\* the concatenation of a sequence of sequences
RECURSIVE Flatten(_)
Flatten(ss) == IF Len(ss) = 0 THEN <<>> ELSE Head(ss) \o Flatten(Tail(ss))

\* ShotSection naming the section after the stored index: the slip C9 rules out
ShotSectionStoredIndex(shot, i) ==
  <<
        "[ Shot" \o NatToStr(shot.index) \o " : 1 ]",
        " { Shot" \o NatToStr(shot.index) \o "\\Name:s Shot" \o NatToStr(shot.index) \o "\\NextShot:d Shot" \o
          NatToStr(shot.index) \o "\\SkipShot:d Shot" \o NatToStr(shot.index) \o "\\MaxTime:f Shot" \o
          NatToStr(shot.index) \o "\\Time:f }",
        "   " \o formatString(shot.name, 12) \o " " \o formatInt(shot.nextShot, 16) \o " " \o
          formatInt(shot.skipShot, 16) \o " " \o formatFloat(shot.maxTime, 14) \o " " \o
          formatFloat(shot.time, 12)
  >>

\* the three lines pushed for the shot at array position i (0-based)
ShotSection(shot, i) ==
  <<
        "[ Shot" \o NatToStr(i) \o " : 1 ]",
        " { Shot" \o NatToStr(i) \o "\\Name:s Shot" \o NatToStr(i) \o "\\NextShot:d Shot" \o NatToStr(i) \o "\\SkipShot:d Shot" \o
          NatToStr(i) \o "\\MaxTime:f Shot" \o NatToStr(i) \o "\\Time:f }",
        "   " \o formatString(shot.name, 12) \o " " \o formatInt(shot.nextShot, 16) \o " " \o
          formatInt(shot.skipShot, 16) \o " " \o formatFloat(shot.maxTime, 14) \o " " \o
          formatFloat(shot.time, 12)
  >>

\* the three lines pushed for the sync point at array position i (0-based)
SyncPointSection(sp, i) ==
  <<
        "[ SyncPoint" \o NatToStr(i) \o " : 1 ]",
        " { SyncPoint" \o NatToStr(i) \o "\\Name:s SyncPoint" \o NatToStr(i) \o "\\Type:d SyncPoint" \o
          NatToStr(i) \o "\\Action:d SyncPoint" \o NatToStr(i) \o "\\Offset:f SyncPoint" \o NatToStr(i) \o "\\Shot:d SyncPoint" \o
          NatToStr(i) \o "\\FromEnd:d SyncPoint" \o NatToStr(i) \o "\\AbsoluteTimeStart:f }",
        "   " \o formatString(sp.name, 17) \o " " \o formatInt(sp.type, 17) \o " " \o
          formatInt(sp.action, 19) \o " " \o formatFloat(sp.offset, 19) \o " " \o formatInt(sp.shot, 17) \o " " \o
          formatInt(sp.fromEnd, 20) \o " " \o formatFloat(sp.absoluteTimeStart, 23)
  >>

\* the descriptor line ("header") of an action section, by variant
ActionDescriptor(type, prefix) ==
  CASE type = "camera" ->
        " { " \o prefix \o "\\Name:s " \o prefix \o "\\Type:d " \o prefix \o "\\Shot:d " \o prefix \o "\\Offset:f " \o
          prefix \o "\\Duration:f " \o prefix \o "\\SyncPoint:d " \o prefix \o "\\FinishShot:d " \o prefix \o "\\DefaultLength:f " \o
          prefix \o "\\CameraType:d " \o prefix \o "\\Target:g  " \o prefix \o "\\Relative:d " \o prefix \o "\\StartOrient:fff    " \o
          prefix \o "\\EndOrient:fff      " \o prefix \o "\\StartOffset:fff    " \o prefix \o "\\EndOffset:fff      " \o
          prefix \o "\\TargetOffset:fff   " \o prefix \o "\\StartFOV:f " \o prefix \o "\\EndFOV:f " \o
          prefix \o "\\TransitionPop:d " \o prefix \o "\\Loop:d " \o prefix \o "\\EndSyncPoint:d }"
    [] type = "dialog" ->
        " { " \o prefix \o "\\Name:s  " \o prefix \o "\\Type:d " \o prefix \o "\\Shot:d " \o prefix \o "\\Offset:f " \o
          prefix \o "\\Duration:f " \o prefix \o "\\SyncPoint:d " \o prefix \o "\\FinishShot:d " \o prefix \o "\\DefaultLength:f " \o
          prefix \o "\\Speaker:g " \o prefix \o "\\Sample:s " \o prefix \o "\\ForceEnd:d " \o prefix \o "\\Positional:d }"
    [] type = "pop" ->
        " { " \o prefix \o "\\Name:s " \o prefix \o "\\Type:d " \o prefix \o "\\Shot:d " \o prefix \o "\\Offset:f " \o
          prefix \o "\\Duration:f " \o prefix \o "\\SyncPoint:d " \o prefix \o "\\FinishShot:d " \o prefix \o "\\DefaultLength:f " \o
          prefix \o "\\Object:g  " \o prefix \o "\\Location:g " \o prefix \o "\\Facing:g  " \o prefix \o "\\SetFacing:d " \o
          prefix \o "\\Anim:s }"
    [] type = "fade" ->
        " { " \o prefix \o "\\Name:s " \o prefix \o "\\Type:d " \o prefix \o "\\Shot:d " \o prefix \o "\\Offset:f " \o
          prefix \o "\\Duration:f " \o prefix \o "\\SyncPoint:d " \o prefix \o "\\FinishShot:d " \o prefix \o "\\DefaultLength:f " \o
          prefix \o "\\FXType:d " \o prefix \o "\\Magnitude:f " \o prefix \o "\\Frequency:f " \o prefix \o "\\Rolling:d " \o
          prefix \o "\\Fadeout:d " \o prefix \o "\\Color:dddd " \o prefix \o "\\Target:f }"
    [] type = "charAnim" ->
        " { " \o prefix \o "\\Name:s " \o prefix \o "\\Type:d " \o prefix \o "\\Shot:d " \o prefix \o "\\Offset:f " \o
          prefix \o "\\Duration:f " \o prefix \o "\\SyncPoint:d " \o prefix \o "\\FinishShot:d " \o prefix \o "\\DefaultLength:f " \o
          prefix \o "\\Character:g " \o prefix \o "\\AnimName:s " \o prefix \o "\\Length:f " \o prefix \o "\\AnimGroup:s    " \o
          prefix \o "\\AnimatedInPlace:d " \o prefix \o "\\Loops:d " \o prefix \o "\\AnimsToPlay:d }"
    [] type = "objAnim" ->
        " { " \o prefix \o "\\Name:s   " \o prefix \o "\\Type:d " \o prefix \o "\\Shot:d " \o prefix \o "\\Offset:f " \o
          prefix \o "\\Duration:f " \o prefix \o "\\SyncPoint:d " \o prefix \o "\\FinishShot:d " \o prefix \o "\\DefaultLength:f " \o
          prefix \o "\\Object:g  " \o prefix \o "\\AnimName:s " \o prefix \o "\\StartAnimating:d " \o
          prefix \o "\\Looping:d " \o prefix \o "\\HideWhenDone:d " \o prefix \o "\\SetToEndOnSkip:d }"
    [] type = "trigger" ->
        " { " \o prefix \o "\\Name:s " \o prefix \o "\\Type:d " \o prefix \o "\\TriggerName:s " \o prefix \o "\\Shot:d " \o
          prefix \o "\\Offset:f " \o prefix \o "\\Duration:f " \o prefix \o "\\SyncPoint:d " \o prefix \o "\\FinishShot:d " \o
          prefix \o "\\DefaultLength:f }"

\* the value line of an action section, by variant
ActionValues(a) ==
  CASE a.type = "camera" ->
        "   \"" \o a.name \o "\"    " \o toString(a.typeNum) \o "              " \o toString(a.shot) \o "              " \o
          formatFloat(a.offset, 0) \o "         " \o formatFloat(a.duration, 0) \o "               " \o
          toString(a.syncPoint) \o "                   " \o toString(a.finishShot) \o "                    " \o
          formatFloat(a.defaultLength, 0) \o "                " \o toString(a.cameraType) \o "                    " \o
          a.target \o " " \o toString(a.relative) \o "                  " \o
          formatTripleFloat(a.startOrient) \o " " \o formatTripleFloat(a.endOrient) \o " " \o
          formatTripleFloat(a.startOffset) \o " " \o formatTripleFloat(a.endOffset) \o " " \o
          formatTripleFloat(a.targetOffset) \o " " \o formatFloat(a.startFOV, 0) \o "           " \o
          formatFloat(a.endFOV, 0) \o "         " \o toString(a.transitionPop) \o "                       " \o
          toString(a.loop) \o "              " \o toString(a.endSyncPoint) \o "                      "
    [] a.type = "dialog" ->
        "   \"" \o a.name \o "\"  " \o toString(a.typeNum) \o "              " \o toString(a.shot) \o "              " \o
          formatFloat(a.offset, 0) \o "         " \o formatFloat(a.duration, 0) \o "               " \o
          toString(a.syncPoint) \o "                   " \o toString(a.finishShot) \o "                    " \o
          formatFloat(a.defaultLength, 0) \o "                " \o a.speaker \o " \"" \o a.sample \o "\"     " \o
          toString(a.forceEnd) \o "                  " \o toString(a.positional) \o "                    "
    [] a.type = "pop" ->
        "   \"" \o a.name \o "\"    " \o toString(a.typeNum) \o "              " \o toString(a.shot) \o "              " \o
          formatFloat(a.offset, 0) \o "         " \o formatFloat(a.duration, 0) \o "           " \o
          toString(a.syncPoint) \o "                   " \o toString(a.finishShot) \o "                    " \o
          formatFloat(a.defaultLength, 0) \o "                " \o a.object \o " " \o a.location \o "  " \o
          a.facing \o " " \o toString(a.setFacing) \o "                   \"" \o a.anim \o "\"             "
    [] a.type = "fade" ->
        "   \"" \o a.name \o "\"     " \o toString(a.typeNum) \o "              " \o toString(a.shot) \o "              " \o
          formatFloat(a.offset, 0) \o "         " \o formatFloat(a.duration, 0) \o "           " \o
          toString(a.syncPoint) \o "                   " \o toString(a.finishShot) \o "                    " \o
          formatFloat(a.defaultLength, 0) \o "                " \o toString(a.fxType) \o "                " \o
          formatFloat(a.magnitude, 0) \o "            " \o formatFloat(a.frequency, 0) \o "           " \o
          toString(a.rolling) \o "                 " \o toString(a.fadeout) \o "                 " \o
          formatQuadInt(a.color) \o "          " \o formatFloat(a.targetVal, 0) \o "         "
    [] a.type = "charAnim" ->
        "   \"" \o a.name \o "\" " \o toString(a.typeNum) \o "              " \o toString(a.shot) \o "              " \o
          formatFloat(a.offset, 0) \o "         " \o formatFloat(a.duration, 0) \o "           " \o
          toString(a.syncPoint) \o "                   " \o toString(a.finishShot) \o "                    " \o
          formatFloat(a.defaultLength, 0) \o "                " \o a.character \o "   \"" \o a.animName \o "\"     " \o
          formatFloat(a.length, 0) \o "         \"" \o a.animGroup \o "\" " \o toString(a.animatedInPlace) \o "                         " \o
          toString(a.loops) \o "               " \o toString(a.animsToPlay) \o "                     "
    [] a.type = "objAnim" ->
        "   \"" \o a.name \o "\" " \o toString(a.typeNum) \o "              " \o toString(a.shot) \o "              " \o
          formatFloat(a.offset, 0) \o "         " \o formatFloat(a.duration, 0) \o "           " \o
          toString(a.syncPoint) \o "                   " \o toString(a.finishShot) \o "                    " \o
          formatFloat(a.defaultLength, 0) \o "                " \o a.object \o " \"" \o a.animName \o "\"                 " \o
          toString(a.startAnimating) \o "                        " \o toString(a.looping) \o "                 " \o
          toString(a.hideWhenDone) \o "                      " \o toString(a.setToEndOnSkip) \o "                        "
    [] a.type = "trigger" ->
        "   \"" \o a.name \o "\"   " \o toString(a.typeNum) \o "              \"" \o a.triggerName \o "\"       " \o
          toString(a.shot) \o "               " \o formatFloat(a.offset, 0) \o "         " \o
          formatFloat(a.duration, 0) \o "            " \o toString(a.syncPoint) \o "                    " \o
          toString(a.finishShot) \o "                     " \o formatFloat(a.defaultLength, 0) \o "    "

\* const prefix = `Action${index}`
ActionPrefix(index) == "Action" \o NatToStr(index)

\* exportAction writing the camera descriptor for every variant: the slip C8
\* rules out
exportActionCameraSchema(action, index) ==
  join(<<
        "[ " \o ActionPrefix(index) \o " : 1 ]",
        ActionDescriptor("camera", ActionPrefix(index)),
        ActionValues(action)
      >>, "\n")

exportAction(action, index) ==
  join(<<
        "[ " \o ActionPrefix(index) \o " : 1 ]",
        ActionDescriptor(action.type, ActionPrefix(index)),
        ActionValues(action)
      >>, "\n")

KeyframeLine(kf) ==
        "   " \o formatInt(kf.posX, 6) \o " " \o formatInt(kf.posY, 6) \o " " \o formatInt(kf.posZ, 6) \o " " \o
          formatInt(kf.oriX, 6) \o " " \o formatInt(kf.oriY, 6) \o " " \o formatInt(kf.oriZ, 6) \o " " \o
          formatInt(kf.oriW, 6)

exportCameraPath(cp) ==
  join(<<
        "[ CameraPath : 1 ]",
        " { GUID:s              Pos:fff                    Orient:fff                 Scale:fff                  BBox:ffffff                    Loops:d Range:fff                  Min:fff                               PlaySpeed:f CamPosOffset:fff                      CamRotOffset:fff           LookatGuid:g      LookatOffset:fff           FromCenter:d Interpolate:d Lookspring:d }",
        "   " \o formatString(cp.guid, 18) \o " " \o padEnd(formatTripleFloat(cp.pos), 26) \o " " \o
          padEnd(formatTripleFloat(cp.orient), 26) \o " " \o padEnd(formatTripleFloat(cp.scale), 26) \o " " \o
          padEnd(formatSixFloat(cp.bBox), 30) \o " " \o formatInt(cp.loops, 7) \o " " \o
          padEnd(formatTripleFloat(cp.range), 22) \o " " \o padEnd(formatTripleFloat(cp.min), 33) \o " " \o
          formatFloat(cp.playSpeed, 11) \o " " \o padEnd(formatTripleFloat(cp.camPosOffset), 37) \o " " \o
          padEnd(formatTripleFloat(cp.camRotOffset), 26) \o " " \o formatGuid(cp.lookatGuid, 17) \o " " \o
          padEnd(formatTripleFloat(cp.lookatOffset), 26) \o " " \o formatInt(cp.fromCenter, 12) \o " " \o
          formatInt(cp.interpolate, 13) \o " " \o formatInt(cp.lookspring, 12),
        "[ Keyframes : 1 ]",
        " { PosX:d PosY:d PosZ:d OriX:d OriY:d OriZ:d OriW:d }"
        >> \o Map(KeyframeLine, cp.keyframes) \o <<"">>, "\n")

ParticipantLine(p) ==
        "   " \o p \o " "

\* the Action-1 and Action-2 sections (fixed templates)
BoilerplateSections ==
  <<
        "[ Action-1 : 1 ]",
        " { Action-1\\Shot:d Action-1\\Offset:f Action-1\\Duration:f Action-1\\SyncPoint:d Action-1\\FinishShot:d Action-1\\DefaultLength:f Action-1\\FXType:d Action-1\\Magnitude:f Action-1\\Frequency:f Action-1\\Rolling:d Action-1\\Fadeout:d Action-1\\Color:dddd Action-1\\Target:f }",
        "   " \o formatInt(Num(0), 15) \o " " \o formatFloat(Num(0), 17) \o " " \o formatFloat(Num(1), 19) \o " " \o
          formatInt(Num(0), 20) \o " " \o formatInt(Num(0), 21) \o " " \o formatFloat(Num(1), 24) \o " " \o
          formatInt(Num(3), 17) \o " " \o formatFloat(Dec(0, 1500000), 20) \o " " \o
          formatFloat(Num(20), 20) \o " " \o formatInt(Num(0), 18) \o " " \o formatInt(Num(0), 18) \o " " \o
          padEnd(formatQuadInt(<<Num(0), Num(0), Num(0), Num(255)>>), 18) \o " " \o formatFloat(Num(0), 17),
        "[ Action-2 : 1 ]",
        " { Action-2\\Shot:d Action-2\\Offset:f Action-2\\Duration:f Action-2\\SyncPoint:d Action-2\\FinishShot:d Action-2\\DefaultLength:f Action-2\\FXType:d Action-2\\Magnitude:f Action-2\\Frequency:f Action-2\\Rolling:d Action-2\\Fadeout:d Action-2\\Color:dddd Action-2\\Target:f }",
        "   " \o formatInt(Num(0), 15) \o " " \o formatFloat(Num(0), 17) \o " " \o formatFloat(Num(1), 19) \o " " \o
          formatInt(Num(0), 20) \o " " \o formatInt(Num(0), 21) \o " " \o formatFloat(Num(1), 24) \o " " \o
          formatInt(Num(3), 17) \o " " \o formatFloat(Dec(0, 1500000), 20) \o " " \o
          formatFloat(Num(20), 20) \o " " \o formatInt(Num(0), 18) \o " " \o formatInt(Num(0), 18) \o " " \o
          padEnd(formatQuadInt(<<Num(0), Num(0), Num(0), Num(255)>>), 18) \o " " \o formatFloat(Num(0), 17)
  >>

\* the three lines of the Cinema section
CinemaSection(cinema) ==
  <<
        "[ Cinema : 1 ]",
        " { GUID:s              DoesCameraColl:d DoesCameraFade:d LightChannels:d ObjectFlags:d ScriptResource:s InitialPos:fff             Orientation:fff            LocalBoundingBox:ffffff                                  ObjSaveFlag:d ObjName:s                  Repeatable:d PopAtEnd:d Cinematic:d Time:f   Duration:f nShots:d nSyncPoints:d nActions:d nParticipants:d InitialShot:d BilboInvisible:d HasIntroTrans:d HasOutroTrans:d Skippable:d IsDeathCinema:d ForceNoWeapon:d ForceUseStick:d ForceUseSting:d Letterbox:d DisableControl:d BypassQueue:d LowPriority:d SubtitleInBox:d }",
        "   " \o formatString(cinema.guid, 18) \o " " \o formatInt(cinema.properties.doesCameraColl, 16) \o " " \o
          formatInt(cinema.properties.doesCameraFade, 16) \o " " \o formatInt(cinema.properties.lightChannels, 15) \o " " \o
          formatInt(cinema.properties.objectFlags, 13) \o " " \o formatString(cinema.properties.scriptResource, 16) \o " " \o
          padEnd(formatTripleFloat(cinema.properties.initialPos), 26) \o " " \o
          padEnd(formatTripleFloat(cinema.properties.orientation), 26) \o " " \o
          padEnd(formatSixFloat(cinema.properties.localBoundingBox), 52) \o " " \o formatInt(cinema.properties.objSaveFlag, 13) \o " " \o
          formatString(cinema.objName, 26) \o " " \o formatInt(cinema.properties.repeatable, 12) \o " " \o formatInt(cinema.properties.popAtEnd, 10) \o " " \o
          formatInt(cinema.properties.cinematic, 11) \o " " \o formatFloat(cinema.properties.time, 8) \o " " \o
          formatFloat(cinema.duration, 10) \o " " \o formatInt(Num(Len(cinema.shots)), 8) \o " " \o
          formatInt(Num(Len(cinema.syncPoints)), 13) \o " " \o formatInt(Num(Len(cinema.actions)), 10) \o " " \o
          formatInt(Num(Len(cinema.participants)), 15) \o " " \o formatInt(cinema.properties.initialShot, 13) \o " " \o
          formatInt(cinema.properties.bilboInvisible, 16) \o " " \o formatInt(cinema.properties.hasIntroTrans, 15) \o " " \o
          formatInt(cinema.properties.hasOutroTrans, 15) \o " " \o formatInt(cinema.properties.skippable, 11) \o " " \o
          formatInt(cinema.properties.isDeathCinema, 15) \o " " \o formatInt(cinema.properties.forceNoWeapon, 15) \o " " \o
          formatInt(cinema.properties.forceUseStick, 15) \o " " \o formatInt(cinema.properties.forceUseSting, 15) \o " " \o
          formatInt(cinema.properties.letterbox, 11) \o " " \o formatInt(cinema.properties.disableControl, 16) \o " " \o
          formatInt(cinema.properties.bypassQueue, 13) \o " " \o formatInt(cinema.properties.lowPriority, 13) \o " " \o
          formatInt(cinema.properties.subtitleInBox, 15)
  >>

\* the Participants section: header, descriptor and one line per participant
ParticipantsSection(cinema) ==
  <<
        "[ Participants : " \o NatToStr(Len(cinema.participants)) \o " ]",
        " { PGuid:g           }"
  >> \o Map(ParticipantLine, cinema.participants)

\* an encoder that writes the boilerplate sections before the Participants
\* section: the slip C18 rules out
exportCinemaBoilerplateFirst(cinema) ==
  join(CinemaSection(cinema)
         \o Flatten([k \in 1..Len(cinema.shots) |-> ShotSection(cinema.shots[k], k - 1)])
         \o <<"">>
         \o Flatten([k \in 1..Len(cinema.syncPoints) |->
                       SyncPointSection(cinema.syncPoints[k], k - 1)])
         \o <<"", "">>
         \o [k \in 1..Len(cinema.actions) |-> exportAction(cinema.actions[k], k - 1)]
         \o <<"">>
         \o BoilerplateSections
         \o ParticipantsSection(cinema)
         \o <<"">>
         \o Map(exportCameraPath, cinema.cameraPaths),
       "\n")

exportCinema(cinema) ==
  join(CinemaSection(cinema)
         \o Flatten([k \in 1..Len(cinema.shots) |-> ShotSection(cinema.shots[k], k - 1)])
         \o <<"">>
         \o Flatten([k \in 1..Len(cinema.syncPoints) |->
                       SyncPointSection(cinema.syncPoints[k], k - 1)])
         \o <<"", "">>
         \o [k \in 1..Len(cinema.actions) |-> exportAction(cinema.actions[k], k - 1)]
         \o <<"">>
         \o ParticipantsSection(cinema)
         \o BoilerplateSections
         \o <<"">>
         \o Map(exportCameraPath, cinema.cameraPaths),
       "\n")

\* Export multiple cinemas
exportMultipleCinemas(cinemas) ==
  join([k \in 1..Len(cinemas) |->
          IF k > 1
          THEN "\n//////////////////////////////////////////\n\n" \o exportCinema(cinemas[k])
          ELSE exportCinema(cinemas[k])],
       "")

-----------------------------------------------------------------------------
(* Decoder: parseValues *)

\* the position of the first "}" after position p, 0 when there is none
CloseAfter(s, p) ==
  IF \E q \in (p + 1)..Len(s) : CharAt(s, q) = "}"
  THEN CHOOSE q \in (p + 1)..Len(s) :
         CharAt(s, q) = "}" /\ \A r \in (p + 1)..(q - 1) : CharAt(s, r) # "}"
  ELSE 0

\* the match that starts at the leftmost of the positions opens
HeaderGroup(s, opens) ==
  IF opens = {} THEN [ok |-> FALSE, body |-> ""]
  ELSE [ok |-> TRUE, body |-> SubSeq(s, Nth(opens, 1) + 1, CloseAfter(s, Nth(opens, 1)) - 1)]

\* headerLine.match(/\{([^}]+)\}/): the leftmost "{" that is followed by at
\* least one character other than "}" and then by "}"; body is group 1
HeaderMatch(headerLine) ==
  HeaderGroup(headerLine,
              {p \in 1..Len(headerLine) :
                 CharAt(headerLine, p) = "{" /\ CloseAfter(headerLine, p) > p + 1})

\* the scanner state before the first character of a value line
TokenizerStart == [current |-> "", inQuotes |-> FALSE, tokens |-> <<>>]

\* a scanner that keeps the empty segment between two spaces: the slip C13
\* rules out
TokenizerStepKeepsEmpty(st, char) ==
  IF char = "\""
  THEN [st EXCEPT !.inQuotes = ~st.inQuotes, !.current = st.current \o char]
  ELSE IF char = " " /\ ~st.inQuotes
  THEN [st EXCEPT !.tokens = Append(st.tokens, trim(st.current)), !.current = ""]
  ELSE [st EXCEPT !.current = st.current \o char]

\* one iteration of the scanner loop, on the character char
TokenizerStep(st, char) ==
  IF char = "\""
  THEN [st EXCEPT !.inQuotes = ~st.inQuotes, !.current = st.current \o char]
  ELSE IF char = " " /\ ~st.inQuotes
  THEN [st EXCEPT !.tokens = IF trim(st.current) # ""
                             THEN Append(st.tokens, trim(st.current))
                             ELSE st.tokens,
                  !.current = ""]
  ELSE [st EXCEPT !.current = st.current \o char]

\* the scanner loop over the characters lo..hi of valueStr, in order; the
\* range is halved so that the evaluation depth stays logarithmic
RECURSIVE TokenizerLoop(_, _, _, _)
TokenizerLoop(valueStr, lo, hi, st) ==
  IF lo > hi THEN st
  ELSE IF lo = hi THEN TokenizerStep(st, CharAt(valueStr, lo))
  ELSE LET mid == (lo + hi) \div 2
           left == TokenizerLoop(valueStr, lo, mid, st)
       IN  IF left.inQuotes \in BOOLEAN
           THEN TokenizerLoop(valueStr, mid + 1, hi, left)
           ELSE left

\* the tokens of a value line
Tokenize(valueLine) ==
  LET valueStr == trim(valueLine)
      st == TokenizerLoop(valueStr, 1, Len(valueStr), TokenizerStart)
  IN  IF trim(st.current) # "" THEN Append(st.tokens, trim(st.current)) ELSE st.tokens

\* a fill with the empty text in place of 0: the slip C30 rules out
TokenOrBlank(tokens, k) == IF k < Len(tokens) THEN tokens[k + 1] ELSE ""

\* tokens[k] || '0' for a 0-based k
TokenOrZero(tokens, k) == IF k < Len(tokens) THEN tokens[k + 1] ELSE "0"

\* a binder that takes two tokens for a float triple: the slip C15 rules out
ArityTripleAsPair(fieldType) ==
  CASE fieldType = "fff" -> 2
    [] fieldType = "ffffff" -> 6
    [] fieldType = "dddd" -> 4
    [] OTHER -> 1

\* the number of tokens a field of the given type consumes
Arity(fieldType) ==
  CASE fieldType = "fff" -> 3
    [] fieldType = "ffffff" -> 6
    [] fieldType = "dddd" -> 4
    [] OTHER -> 1

\* the raw value bound to a field of the given type at tokenIndex
BoundValue(fieldType, tokens, tokenIndex) ==
  IF Arity(fieldType) = 1 THEN tokens[tokenIndex + 1]
  ELSE join([j \in 1..Arity(fieldType) |->
               IF j = 1 THEN tokens[tokenIndex + 1] ELSE TokenOrZero(tokens, tokenIndex + j - 1)],
            " ")

\* a binder that goes on past the last token and binds the empty text: the
\* slip C16 rules out
RECURSIVE MatchTokensBindsEmpty(_, _, _, _, _)
MatchTokensBindsEmpty(fields, k, tokens, tokenIndex, values) ==
  IF k > Len(fields) THEN values
  ELSE MatchTokensBindsEmpty(fields, k + 1, tokens, tokenIndex + Arity(SplitOn(fields[k], {":"})[2]),
         (SplitOn(fields[k], {":"})[1] :>
            (IF tokenIndex >= Len(tokens) THEN ""
             ELSE BoundValue(SplitOn(fields[k], {":"})[2], tokens, tokenIndex))) @@ values)

\* the binder loop from the k-th field on
RECURSIVE MatchTokens(_, _, _, _, _)
MatchTokens(fields, k, tokens, tokenIndex, values) ==
  IF k > Len(fields) \/ tokenIndex >= Len(tokens) THEN values
  ELSE LET parts == SplitOn(fields[k], {":"})
           fieldName == parts[1]
           fieldType == IF Len(parts) >= 2 THEN parts[2] ELSE ""
       IN  MatchTokens(fields, k + 1, tokens, tokenIndex + Arity(fieldType),
                       (fieldName :> BoundValue(fieldType, tokens, tokenIndex)) @@ values)

\* the empty Record<string, string>
NoValues == [k \in {} |-> ""]

\* Parse a line of values based on the header format
parseValues(headerLine, valueLine) ==
  LET headerMatch == HeaderMatch(headerLine)
  IN  IF ~headerMatch.ok THEN NoValues
      ELSE MatchTokens(SplitWS(trim(headerMatch.body)), 1, Tokenize(valueLine), 0, NoValues)

\* vals[key] || dflt
Get(vals, key, dflt) == IF key \in DOMAIN vals /\ vals[key] # "" THEN vals[key] ELSE dflt

-----------------------------------------------------------------------------
(* Decoder: value parsers *)

\* val.replace(/^"|"$/g, '')
parseString(val) ==
  LET a == IF startsWith(val, "\"") THEN 2 ELSE 1
      b == IF Len(val) >= a /\ endsWith(val, "\"") THEN Len(val) - 1 ELSE Len(val)
  IN  SubSeq(val, a, b)

parseFloatVal(val) == OrZero(parseFloat(val))

parseIntVal(val) == OrZero(floor(parseFloat(val)))

\* parts[k] || 0 for a 0-based k
PartOrZero(parts, k) == IF k < Len(parts) THEN parts[k + 1] ELSE Num(0)

parseTriple(val) ==
  LET parts == Map(parseFloatVal, SplitOn(val, {" "}))
  IN  <<PartOrZero(parts, 0), PartOrZero(parts, 1), PartOrZero(parts, 2)>>

parseSix(val) ==
  LET parts == Map(parseFloatVal, SplitOn(val, {" "}))
  IN  <<PartOrZero(parts, 0), PartOrZero(parts, 1), PartOrZero(parts, 2),
        PartOrZero(parts, 3), PartOrZero(parts, 4), PartOrZero(parts, 5)>>

parseQuad(val) ==
  LET parts == Map(parseIntVal, SplitOn(val, {" "}))
  IN  <<PartOrZero(parts, 0), PartOrZero(parts, 1), PartOrZero(parts, 2),
        PartOrZero(parts, 3)>>

-----------------------------------------------------------------------------
(* Decoder: sections of parseSingleCinema *)

\* the record parseSingleCinema starts from
NewCinema ==
  [guid |-> "", objName |-> "", duration |-> Num(0),
   properties |-> createDefaultCinemaProperties,
   shots |-> <<>>, syncPoints |-> <<>>, actions |-> <<>>, participants |-> <<>>,
   cameraPaths |-> <<>>]

\* the match that starts at the leftmost of the positions hits
IndexedGroup(line, lead, hits) ==
  IF hits = {} THEN [ok |-> FALSE, digits |-> ""]
  ELSE [ok |-> TRUE,
        digits |-> SubSeq(line, Nth(hits, 1) + Len(lead),
                          Nth(hits, 1) + Len(lead) + DigitRun(line, Nth(hits, 1) + Len(lead)) - 1)]

\* the positions where lead, a run of digits and " :" follow one another
IndexedHits(line, lead) ==
  {p \in 1..Len(line) :
     /\ Slice(line, p, p + Len(lead) - 1) = lead
     /\ DigitRun(line, p + Len(lead)) >= 1
     /\ Slice(line, p + Len(lead) + DigitRun(line, p + Len(lead)),
              p + Len(lead) + DigitRun(line, p + Len(lead)) + 1) = " :"}

\* line.match(/\[ <name>(\d+) :/): the leftmost "[ <name>" followed by a run
\* of digits and " :"; digits is group 1
IndexedMatch(line, name) == IndexedGroup(line, "[ " \o name, IndexedHits(line, "[ " \o name))

\* the Cinema header branch: the fields set from vals
CinemaFromHeader(cinema, vals) ==
  [cinema EXCEPT
     !.guid = parseString(Get(vals, "GUID", "")),
     !.objName = parseString(Get(vals, "ObjName", "")),
     !.duration = parseFloatVal(Get(vals, "Duration", "0")),
     !.properties =
        [doesCameraColl |-> parseIntVal(Get(vals, "DoesCameraColl", "1")),
         doesCameraFade |-> parseIntVal(Get(vals, "DoesCameraFade", "1")),
         lightChannels |-> parseIntVal(Get(vals, "LightChannels", "1")),
         objectFlags |-> parseIntVal(Get(vals, "ObjectFlags", "432")),
         scriptResource |-> parseString(Get(vals, "ScriptResource", "")),
         initialPos |-> parseTriple(Get(vals, "InitialPos", "0 0 0")),
         orientation |-> parseTriple(Get(vals, "Orientation", "0 0 0")),
         localBoundingBox |-> parseSix(Get(vals, "LocalBoundingBox", "-1 -1 -1 1 1 1")),
         objSaveFlag |-> parseIntVal(Get(vals, "ObjSaveFlag", "1")),
         repeatable |-> parseIntVal(Get(vals, "Repeatable", "1")),
         popAtEnd |-> parseIntVal(Get(vals, "PopAtEnd", "0")),
         cinematic |-> parseIntVal(Get(vals, "Cinematic", "1")),
         time |-> parseFloatVal(Get(vals, "Time", "0")),
         initialShot |-> parseIntVal(Get(vals, "InitialShot", "0")),
         bilboInvisible |-> parseIntVal(Get(vals, "BilboInvisible", "0")),
         hasIntroTrans |-> parseIntVal(Get(vals, "HasIntroTrans", "0")),
         hasOutroTrans |-> parseIntVal(Get(vals, "HasOutroTrans", "0")),
         skippable |-> parseIntVal(Get(vals, "Skippable", "1")),
         isDeathCinema |-> parseIntVal(Get(vals, "IsDeathCinema", "0")),
         forceNoWeapon |-> parseIntVal(Get(vals, "ForceNoWeapon", "0")),
         forceUseStick |-> parseIntVal(Get(vals, "ForceUseStick", "0")),
         forceUseSting |-> parseIntVal(Get(vals, "ForceUseSting", "0")),
         letterbox |-> parseIntVal(Get(vals, "Letterbox", "1")),
         disableControl |-> parseIntVal(Get(vals, "DisableControl", "0")),
         bypassQueue |-> parseIntVal(Get(vals, "BypassQueue", "0")),
         lowPriority |-> parseIntVal(Get(vals, "LowPriority", "0")),
         subtitleInBox |-> parseIntVal(Get(vals, "SubtitleInBox", "0"))]]

\* the element the Shot branch pushes
ShotFromSection(id, shotIndex, vals) ==
  LET prefix == "Shot" \o NatToStr(shotIndex) \o "\\" IN
  [id |-> id, index |-> shotIndex,
   name |-> parseString(Get(vals, prefix \o "Name", "Shot " \o NatToStr(shotIndex))),
   nextShot |-> parseIntVal(Get(vals, prefix \o "NextShot", "0")),
   skipShot |-> parseIntVal(Get(vals, prefix \o "SkipShot", "0")),
   maxTime |-> parseFloatVal(Get(vals, prefix \o "MaxTime", "10")),
   time |-> parseFloatVal(Get(vals, prefix \o "Time", "0"))]

\* the element the SyncPoint branch pushes
SyncPointFromSection(id, syncIndex, vals) ==
  LET prefix == "SyncPoint" \o NatToStr(syncIndex) \o "\\" IN
  [id |-> id, index |-> syncIndex,
   name |-> parseString(Get(vals, prefix \o "Name", "Sync " \o NatToStr(syncIndex))),
   type |-> parseIntVal(Get(vals, prefix \o "Type", "0")),
   action |-> parseIntVal(Get(vals, prefix \o "Action", "0")),
   offset |-> parseFloatVal(Get(vals, prefix \o "Offset", "0")),
   shot |-> parseIntVal(Get(vals, prefix \o "Shot", "0")),
   fromEnd |-> parseIntVal(Get(vals, prefix \o "FromEnd", "1")),
   absoluteTimeStart |-> parseFloatVal(Get(vals, prefix \o "AbsoluteTimeStart", "0"))]

\* ACTION_TYPE_REVERSE[typeNum] || 'camera'
ActionTypeOf(typeNum) ==
  IF ACTION_TYPE_REVERSE(typeNum) # "" THEN ACTION_TYPE_REVERSE(typeNum) ELSE "camera"

\* the switch over actionType: the variant's own fields
ActionVariant(actionType, prefix, vals) ==
  CASE actionType = "camera" ->
         [type |-> "camera", typeNum |-> Num(4),
          cameraType |-> parseIntVal(Get(vals, prefix \o "CameraType", "0")),
          target |-> Get(vals, prefix \o "Target", "00000000_00000000"),
          relative |-> parseIntVal(Get(vals, prefix \o "Relative", "0")),
          startOrient |-> parseTriple(Get(vals, prefix \o "StartOrient", "0 0 0")),
          endOrient |-> parseTriple(Get(vals, prefix \o "EndOrient", "0 0 0")),
          startOffset |-> parseTriple(Get(vals, prefix \o "StartOffset", "0 0 0")),
          endOffset |-> parseTriple(Get(vals, prefix \o "EndOffset", "0 0 0")),
          targetOffset |-> parseTriple(Get(vals, prefix \o "TargetOffset", "0 0 0")),
          startFOV |-> parseFloatVal(Get(vals, prefix \o "StartFOV", "1.256637")),
          endFOV |-> parseFloatVal(Get(vals, prefix \o "EndFOV", "1.256637")),
          transitionPop |-> parseIntVal(Get(vals, prefix \o "TransitionPop", "0")),
          loop |-> parseIntVal(Get(vals, prefix \o "Loop", "0")),
          endSyncPoint |-> parseIntVal(Get(vals, prefix \o "EndSyncPoint", "0"))]
    [] actionType = "dialog" ->
         [type |-> "dialog", typeNum |-> Num(5),
          speaker |-> Get(vals, prefix \o "Speaker", "ABCABCAB_CABCABC0"),
          sample |-> parseString(Get(vals, prefix \o "Sample", "")),
          forceEnd |-> parseIntVal(Get(vals, prefix \o "ForceEnd", "1")),
          positional |-> parseIntVal(Get(vals, prefix \o "Positional", "0"))]
    [] actionType = "pop" ->
         [type |-> "pop", typeNum |-> Num(6),
          object |-> Get(vals, prefix \o "Object", "ABCABCAB_CABCABC0"),
          location |-> Get(vals, prefix \o "Location", "00000000_00000000"),
          facing |-> Get(vals, prefix \o "Facing", "00000000_00000000"),
          setFacing |-> parseIntVal(Get(vals, prefix \o "SetFacing", "1")),
          anim |-> parseString(Get(vals, prefix \o "Anim", ""))]
    [] actionType = "fade" ->
         [type |-> "fade", typeNum |-> Num(8),
          fxType |-> parseIntVal(Get(vals, prefix \o "FXType", "1")),
          magnitude |-> parseFloatVal(Get(vals, prefix \o "Magnitude", "0.15")),
          frequency |-> parseFloatVal(Get(vals, prefix \o "Frequency", "20")),
          rolling |-> parseIntVal(Get(vals, prefix \o "Rolling", "0")),
          fadeout |-> parseIntVal(Get(vals, prefix \o "Fadeout", "0")),
          color |-> parseQuad(Get(vals, prefix \o "Color", "0 0 0 255")),
          targetVal |-> parseFloatVal(Get(vals, prefix \o "Target", "0"))]
    [] actionType = "charAnim" ->
         [type |-> "charAnim", typeNum |-> Num(2),
          character |-> Get(vals, prefix \o "Character", "00000000_00000000"),
          animName |-> parseString(Get(vals, prefix \o "AnimName", "")),
          length |-> parseFloatVal(Get(vals, prefix \o "Length", "1")),
          animGroup |-> parseString(Get(vals, prefix \o "AnimGroup", "")),
          animatedInPlace |-> parseIntVal(Get(vals, prefix \o "AnimatedInPlace", "1")),
          loops |-> parseIntVal(Get(vals, prefix \o "Loops", "0")),
          animsToPlay |-> parseIntVal(Get(vals, prefix \o "AnimsToPlay", "0"))]
    [] actionType = "objAnim" ->
         [type |-> "objAnim", typeNum |-> Num(9),
          object |-> Get(vals, prefix \o "Object", "00000000_00000000"),
          animName |-> parseString(Get(vals, prefix \o "AnimName", "")),
          startAnimating |-> parseIntVal(Get(vals, prefix \o "StartAnimating", "1")),
          looping |-> parseIntVal(Get(vals, prefix \o "Looping", "0")),
          hideWhenDone |-> parseIntVal(Get(vals, prefix \o "HideWhenDone", "1")),
          setToEndOnSkip |-> parseIntVal(Get(vals, prefix \o "SetToEndOnSkip", "1"))]
    [] actionType = "trigger" ->
         [type |-> "trigger", typeNum |-> Num(10),
          triggerName |-> parseString(Get(vals, prefix \o "TriggerName", ""))]
    [] OTHER ->
         [type |-> "camera", typeNum |-> Num(4), cameraType |-> Num(0),
          target |-> "00000000_00000000", relative |-> Num(0),
          startOrient |-> Zero3, endOrient |-> Zero3, startOffset |-> Zero3,
          endOffset |-> Zero3, targetOffset |-> Zero3,
          startFOV |-> DefaultFOV, endFOV |-> DefaultFOV,
          transitionPop |-> Num(0), loop |-> Num(0), endSyncPoint |-> Num(0)]

\* const prefix = `Action${actionIndex}\\`
ActionKeyPrefix(actionIndex) == "Action" \o NatToStr(actionIndex) \o "\\"

\* const typeNum = parseIntVal(vals[`${prefix}Type`] || '4')
TypeNumOf(prefix, vals) == parseIntVal(Get(vals, prefix \o "Type", "4"))

\* const baseAction = { ... }
BaseActionOf(id, actionIndex, prefix, vals) ==
  [id |-> id, index |-> actionIndex,
   name |-> parseString(Get(vals, prefix \o "Name", "Action " \o NatToStr(actionIndex))),
   shot |-> parseIntVal(Get(vals, prefix \o "Shot", "0")),
   offset |-> parseFloatVal(Get(vals, prefix \o "Offset", "0")),
   duration |-> parseFloatVal(Get(vals, prefix \o "Duration", "1")),
   syncPoint |-> parseIntVal(Get(vals, prefix \o "SyncPoint", "0")),
   finishShot |-> parseIntVal(Get(vals, prefix \o "FinishShot", "1")),
   defaultLength |-> parseFloatVal(Get(vals, prefix \o "DefaultLength", "1"))]

\* ActionFromSection storing the code it read instead of the variant's code:
\* the slip C7 rules out
ActionFromSectionKeepsCode(id, actionIndex, vals) ==
  Spread(BaseActionOf(id, actionIndex, ActionKeyPrefix(actionIndex), vals),
         [ActionVariant(ActionTypeOf(TypeNumOf(ActionKeyPrefix(actionIndex), vals)),
                        ActionKeyPrefix(actionIndex), vals)
            EXCEPT !.typeNum = TypeNumOf(ActionKeyPrefix(actionIndex), vals)])

\* the element the Action branch pushes
ActionFromSection(id, actionIndex, vals) ==
  Spread(BaseActionOf(id, actionIndex, ActionKeyPrefix(actionIndex), vals),
         ActionVariant(ActionTypeOf(TypeNumOf(ActionKeyPrefix(actionIndex), vals)),
                       ActionKeyPrefix(actionIndex), vals))

\* the camera path the CameraPath branch builds, before its keyframes
CameraPathFromSection(id, vals) ==
  [id |-> id,
   guid |-> parseString(Get(vals, "GUID", "")),
   pos |-> parseTriple(Get(vals, "Pos", "0 0 0")),
   orient |-> parseTriple(Get(vals, "Orient", "0 0 0")),
   scale |-> parseTriple(Get(vals, "Scale", "1 1 1")),
   bBox |-> parseSix(Get(vals, "BBox", "0 0 0 0 0 0")),
   loops |-> parseIntVal(Get(vals, "Loops", "1")),
   range |-> parseTriple(Get(vals, "Range", "0 0 0")),
   min |-> parseTriple(Get(vals, "Min", "0 0 0")),
   playSpeed |-> parseFloatVal(Get(vals, "PlaySpeed", "1")),
   camPosOffset |-> parseTriple(Get(vals, "CamPosOffset", "0 0 0")),
   camRotOffset |-> parseTriple(Get(vals, "CamRotOffset", "0 0 0")),
   lookatGuid |-> Get(vals, "LookatGuid", "ABCABCAB_CABCABC0"),
   lookatOffset |-> parseTriple(Get(vals, "LookatOffset", "0 0 0")),
   fromCenter |-> parseIntVal(Get(vals, "FromCenter", "0")),
   interpolate |-> parseIntVal(Get(vals, "Interpolate", "1")),
   lookspring |-> parseIntVal(Get(vals, "Lookspring", "0")),
   keyframes |-> <<>>]

\* a loop that takes a line that begins with "{" for an identifier: the slip
\* C21 rules out
RECURSIVE ParticipantsLoopKeepsBraces(_, _, _)
ParticipantsLoopKeepsBraces(ls, k, acc) ==
  IF k >= Len(ls) THEN [i |-> k, participants |-> acc]
  ELSE IF startsWith(trim(ls[k + 1]), "[") \/ trim(ls[k + 1]) = ""
  THEN [i |-> k, participants |-> acc]
  ELSE ParticipantsLoopKeepsBraces(ls, k + 1, Append(acc, trim(ls[k + 1])))

\* the inner loop of the Participants branch, from the 0-based line k
RECURSIVE ParticipantsLoop(_, _, _)
ParticipantsLoop(ls, k, acc) ==
  IF k >= Len(ls) THEN [i |-> k, participants |-> acc]
  ELSE LET pLine == trim(ls[k + 1]) IN
       IF startsWith(pLine, "[") \/ pLine = "" THEN [i |-> k, participants |-> acc]
       ELSE ParticipantsLoop(ls, k + 1,
                             IF trim(pLine) # "" /\ ~startsWith(trim(pLine), "{")
                             THEN Append(acc, trim(pLine)) ELSE acc)

\* the keyframe built from the numbers of one line
KeyframeFromParts(parts) ==
  [posX |-> PartOrZero(parts, 0), posY |-> PartOrZero(parts, 1),
   posZ |-> PartOrZero(parts, 2), oriX |-> PartOrZero(parts, 3),
   oriY |-> PartOrZero(parts, 4), oriZ |-> PartOrZero(parts, 5),
   oriW |-> PartOrZero(parts, 6)]

\* the keyframe built from one line of a Keyframes block
KeyframeFromLine(kfLine) == KeyframeFromParts(Map(parseIntVal, SplitWS(kfLine)))

\* a Keyframes loop that leaves after its first keyframe line: the slip C11
\* rules out
KeyframesLoopFirstOnly(ls, k, acc) ==
  IF k >= Len(ls) THEN [i |-> k, keyframes |-> acc]
  ELSE IF startsWith(trim(ls[k + 1]), "[") \/ trim(ls[k + 1]) = ""
  THEN [i |-> k, keyframes |-> acc]
  ELSE [i |-> k + 1, keyframes |-> Append(acc, KeyframeFromLine(trim(ls[k + 1])))]

\* the inner loop of the Keyframes block, from the 0-based line k
RECURSIVE KeyframesLoop(_, _, _)
KeyframesLoop(ls, k, acc) ==
  IF k >= Len(ls) THEN [i |-> k, keyframes |-> acc]
  ELSE LET kfLine == trim(ls[k + 1]) IN
       IF startsWith(kfLine, "[") \/ kfLine = "" THEN [i |-> k, keyframes |-> acc]
       ELSE KeyframesLoop(ls, k + 1,
                          IF ~startsWith(kfLine, "{")
                          THEN Append(acc, KeyframeFromLine(kfLine)) ELSE acc)

\* a decoder that synthesizes no keyframe: the slip C12 rules out
OrDefaultKeyframeNever(read) == read

\* if (cp.keyframes.length === 0) cp.keyframes.push(createDefaultKeyframe())
OrDefaultKeyframe(read) ==
  [i |-> read.i,
   keyframes |-> IF Len(read.keyframes) = 0 THEN <<createDefaultKeyframe>>
                 ELSE read.keyframes]

\* the CameraPath branch after its value line: the Keyframes block, if one
\* starts at the 0-based line k, and the synthesized keyframe otherwise
CameraPathKeyframes(ls, k) ==
  OrDefaultKeyframe(IF k < Len(ls) /\ startsWith(trim(ls[k + 1]), "[ Keyframes :")
                    THEN KeyframesLoop(ls, k + 2, <<>>)
                    ELSE [i |-> k, keyframes |-> <<>>])

-----------------------------------------------------------------------------
(* State *)

VARIABLES
  input,      \* the records handed to exportMultipleCinemas (<<>>: none)
  content,    \* the text handed to parseCinemaFile
  lines,      \* content.split('\n')
  pc,         \* "idle", "text", "file" (loop of parseCinemaFile),
              \* "single" (loop of parseSingleCinema), "done"
  i,          \* the line cursor (0-based) of the loop that is running
  startIndex, \* the startIndex of the running parseSingleCinema call
  cinema,     \* the record parseSingleCinema is building
  headerSeen, \* whether this parseSingleCinema call took its Cinema header branch
  cinemas,    \* the list parseCinemaFile is building
  result,     \* the value parseCinemaFile returned
  escaped,    \* whether an exception left parseCinemaFile
  caught,     \* whether the catch clause of parseCinemaFile ran
  rng,        \* the platform's random source behind crypto.randomUUID
  call,       \* a direct call of one function of the codec: its arguments and
              \* what it returned ([fn |-> "none"]: no call made)
  editor      \* the state of CutsceneEditor: cinemas and selectedCinemaIndex

vars == <<input, content, lines, pc, i, startIndex, cinema, headerSeen, cinemas, result,
          escaped, caught, rng, call, editor>>

\* lines[k] for a 0-based k
Line(k) == lines[k + 1]

\* the next value of crypto.randomUUID
randomUUID(r) == r.seed \o "-" \o NatToStr(r.n)

Advance(r) == [r EXCEPT !.n = r.n + 1]

\* parseValues(lines[k + 1], lines[k + 2]) raises a TypeError: the header
\* line is undefined, or it matches and the value line is undefined
ParseValuesThrows(k) ==
  \/ k + 1 >= Len(lines)
  \/ HeaderMatch(Line(k + 1)).ok /\ k + 2 >= Len(lines)

\* parseValues(lines[k + 1], lines[k + 2]) when it does not raise
SectionValues(k) ==
  parseValues(Line(k + 1), IF k + 2 < Len(lines) THEN Line(k + 2) ELSE "")

\* a catch clause that rethrows: the slip C5 rules out
CatchRethrows == [result |-> <<>>, escaped |-> TRUE]

\* the catch clause of parseCinemaFile: what the caller gets
CatchClause == [result |-> <<>>, escaped |-> FALSE]

\* an exception raised inside the try block of parseCinemaFile
Raise ==
  /\ pc' = "done"
  /\ result' = CatchClause.result
  /\ escaped' = CatchClause.escaped
  /\ caught' = TRUE
  /\ UNCHANGED <<editor, call, input, content, lines, i, startIndex, cinema, headerSeen, cinemas, rng>>

-----------------------------------------------------------------------------
(* Branch selection of the parseSingleCinema loop *)

IsCinemaHeader(line) == startsWith(line, "[ Cinema :")

\* a dispatch that takes every header that begins with "[ Action" for an
\* action section: the slip C17 rules out
BranchAnyAction(line, guid) ==
  CASE IsCinemaHeader(line) /\ guid # "" -> "return"
    [] IsCinemaHeader(line) -> "cinema"
    [] IndexedMatch(line, "Shot").ok -> "shot"
    [] IndexedMatch(line, "SyncPoint").ok -> "syncPoint"
    [] IndexedMatch(line, "Action").ok \/ startsWith(line, "[ Action") -> "action"
    [] startsWith(line, "[ Participants :") -> "participants"
    [] startsWith(line, "[ CameraPath :") -> "cameraPath"
    [] OTHER -> "skip"

\* a dispatch that ends the record at every Cinema header, the one the call
\* starts at included: the slip C24 rules out
BranchAlwaysReturns(line, guid) ==
  CASE IsCinemaHeader(line) -> "return"
    [] IndexedMatch(line, "Shot").ok -> "shot"
    [] IndexedMatch(line, "SyncPoint").ok -> "syncPoint"
    [] IndexedMatch(line, "Action").ok -> "action"
    [] startsWith(line, "[ Participants :") -> "participants"
    [] startsWith(line, "[ CameraPath :") -> "cameraPath"
    [] OTHER -> "skip"

\* the first test of the loop body that the trimmed line passes
Branch(line, guid) ==
  CASE IsCinemaHeader(line) /\ guid # "" -> "return"
    [] IsCinemaHeader(line) -> "cinema"
    [] IndexedMatch(line, "Shot").ok -> "shot"
    [] IndexedMatch(line, "SyncPoint").ok -> "syncPoint"
    [] IndexedMatch(line, "Action").ok -> "action"
    [] startsWith(line, "[ Participants :") -> "participants"
    [] startsWith(line, "[ CameraPath :") -> "cameraPath"
    [] OTHER -> "skip"

\* the branch the running parseSingleCinema loop takes at the cursor
AtBranch(b) == pc = "single" /\ i < Len(lines) /\ Branch(trim(Line(i)), cinema.guid) = b

\* parseIntVal(match[1]) of an indexed section header
SectionIndex(line, name) == parseIntVal(IndexedMatch(line, name).digits).i

-----------------------------------------------------------------------------
(* Inputs: records for the encoder *)

\* how many fields of the sample record differ from the base choice
MaxVaried == 1

\* how many blocks a hand-written text has after its first section
MaxBlocks == 2

StrChoices == {"New Cinema", "Hello there, friend", "", "say \"hi\""}

IdentChoices == {"ABCABCAB_CABCABC0", "DEAD BEEF"}

FloatChoices == {Dec(2, 5000000), Num(3), Dec(0, 1234564), Neg(Dec(4, 7500006)), Dec(0, 4)}

GuidChoices == {"CA3DDD8F_11110000", ""}

\* the choices a sample record is built from
ParamSpace ==
  [str : StrChoices, ident : IdentChoices, flt : FloatChoices, atype : ActionTypes,
   guid : GuidChoices, stale : BOOLEAN]

BaseParams ==
  [str |-> "New Cinema", ident |-> "ABCABCAB_CABCABC0", flt |-> Dec(2, 5000000),
   atype |-> "camera", guid |-> "CA3DDD8F_11110000", stale |-> FALSE]

Selections ==
  {q \in ParamSpace : Cardinality({k \in DOMAIN q : q[k] # BaseParams[k]}) <= MaxVaried}

\* an action of the variant q.atype with every field set away from its default
SampleAction(q, id, index) ==
  LET d == createDefaultAction(id, q.atype, index)
      b == [d EXCEPT !.name = q.str, !.shot = Num(1), !.offset = q.flt,
                     !.duration = Dec(1, 2500000), !.syncPoint = Num(2),
                     !.finishShot = Num(0), !.defaultLength = Dec(6, 5000000)]
  IN  CASE q.atype = "camera" ->
             [b EXCEPT !.cameraType = Num(3), !.target = q.ident, !.relative = Num(1),
                       !.startOrient = <<q.flt, Num(1), Num(2)>>,
                       !.endOrient = <<Num(3), q.flt, Num(4)>>,
                       !.startOffset = <<Num(5), Num(6), q.flt>>,
                       !.endOffset = <<Neg(Num(7)), Num(8), Num(9)>>,
                       !.targetOffset = <<Num(10), Num(11), Dec(0, 5000000)>>,
                       !.startFOV = Dec(1, 1000000), !.endFOV = q.flt,
                       !.transitionPop = Num(1), !.loop = Num(2), !.endSyncPoint = Num(3)]
        [] q.atype = "dialog" ->
             [b EXCEPT !.speaker = q.ident, !.sample = "Hello there, friend",
                       !.forceEnd = Num(0), !.positional = Num(1)]
        [] q.atype = "pop" ->
             [b EXCEPT !.object = q.ident, !.location = "11111111_22222222",
                       !.facing = "33333333_44444444", !.setFacing = Num(0),
                       !.anim = "wave"]
        [] q.atype = "fade" ->
             [b EXCEPT !.fxType = Num(3), !.magnitude = q.flt, !.frequency = Num(25),
                       !.rolling = Num(1), !.fadeout = Num(1),
                       !.color = <<Num(10), Num(20), Num(30), Num(40)>>,
                       !.targetVal = Dec(0, 5000000)]
        [] q.atype = "charAnim" ->
             [b EXCEPT !.character = q.ident, !.animName = "walk", !.length = q.flt,
                       !.animGroup = "bilbo group.anim", !.animatedInPlace = Num(0),
                       !.loops = Num(2), !.animsToPlay = Num(3)]
        [] q.atype = "objAnim" ->
             [b EXCEPT !.object = q.ident, !.animName = "open", !.startAnimating = Num(0),
                       !.looping = Num(1), !.hideWhenDone = Num(0),
                       !.setToEndOnSkip = Num(0)]
        [] q.atype = "trigger" -> [b EXCEPT !.triggerName = "Trig 1"]

\* the index stored in the element at array position k (0-based): its
\* position, or a stale value left by an import
StoredIndex(q, k) == IF q.stale THEN 7 - 2 * k ELSE k

SampleCameraPath(q, id, k) ==
  [createDefaultCameraPath(id, "1111111" \o NatToStr(k)) EXCEPT
     !.pos = <<q.flt, Num(1), Num(2)>>, !.orient = <<Num(0), Dec(0, 5000000), Num(1)>>,
     !.scale = <<Num(2), Num(2), Num(2)>>,
     !.bBox = <<Num(-1), Num(-2), Num(-3), Num(1), Num(2), q.flt>>,
     !.loops = Num(k), !.range = <<Num(100), Num(200), Num(300)>>,
     !.min = <<Num(-50), Num(-60), Num(-70)>>, !.playSpeed = q.flt,
     !.camPosOffset = <<Num(1), Num(0), Num(0)>>, !.camRotOffset = <<Num(0), Num(1), Num(0)>>,
     !.lookatGuid = q.ident, !.lookatOffset = <<Num(0), Num(0), Num(1)>>,
     !.fromCenter = Num(1), !.interpolate = Num(0), !.lookspring = Num(1),
     !.keyframes = [j \in 1..(k + 1) |->
                      [posX |-> Num(100 * k + j), posY |-> Num(-500), posZ |-> Num(32766),
                       oriX |-> Num(0), oriY |-> Num(j), oriZ |-> Num(-32766),
                       oriW |-> Num(k)]]]

\* a record built from the choices q
SampleCinema(q) ==
  [guid |-> q.guid, objName |-> q.str, duration |-> q.flt,
   properties |->
     [createDefaultCinemaProperties EXCEPT
        !.doesCameraColl = Num(0), !.objectFlags = Num(433), !.scriptResource = q.str,
        !.initialPos = <<q.flt, Num(1), Num(2)>>,
        !.orientation = <<Num(0), Neg(q.flt), Num(0)>>,
        !.localBoundingBox = <<Num(-2), Num(-3), Num(-4), Num(2), Num(3), q.flt>>,
        !.popAtEnd = Num(1), !.time = q.flt, !.initialShot = Num(1),
        !.skippable = Num(0), !.subtitleInBox = Num(1)],
   shots |->
     <<[createDefaultShot("s0", StoredIndex(q, 0)) EXCEPT
          !.name = q.str, !.nextShot = Num(1), !.skipShot = Num(-1), !.maxTime = q.flt,
          !.time = Dec(0, 5000000)],
       createDefaultShot("s1", StoredIndex(q, 1))>>,
   syncPoints |->
     <<[createDefaultSyncPoint("p0", StoredIndex(q, 0), 0) EXCEPT
          !.name = q.str, !.type = Num(2), !.action = Num(1), !.offset = q.flt,
          !.shot = Num(1), !.fromEnd = Num(0), !.absoluteTimeStart = Dec(1, 5000000)]>>,
   actions |->
     <<SampleAction(q, "a0", StoredIndex(q, 0)),
       createDefaultAction("a1", "dialog", StoredIndex(q, 1))>>,
   participants |-> <<q.ident, "00000000_00000000">>,
   cameraPaths |-> <<SampleCameraPath(q, "c0", 0), SampleCameraPath(q, "c1", 1)>>]

\* the second record of a two-record export
SecondCinema ==
  [createDefaultCinema("s9", "p9") EXCEPT
     !.guid = "CA3DDD8F_22220000", !.objName = "Second",
     !.actions = <<createDefaultAction("a9", "trigger", 0)>>,
     !.cameraPaths = <<createDefaultCameraPath("c9", "22222222")>>]

\* the record lists handed to exportMultipleCinemas
InputLists ==
  {<<SampleCinema(q)>> : q \in Selections}
    \cup {<<SampleCinema(q), SecondCinema>> :
            q \in {s \in Selections : \A k \in DOMAIN s \ {"guid"} : s[k] = BaseParams[k]}}

-----------------------------------------------------------------------------
(* Inputs: hand-written texts *)

\* the first section of a hand-written text
FirstSections ==
  {<<>>,
   <<"[ Cinema : 1 ]", " { GUID:s ObjName:s Duration:f }", "   \"G1\" \"First\" 2.50">>,
   <<"[ Cinema : 1 ]", " { GUID:s ObjName:s Duration:f }", "   \"\" \"NoGuid\" 1.00">>}

\* the blocks a hand-written text continues with, in the order they are taken
BlockPool ==
  << <<"// note">>,
     <<"[ Shot7 : 1 ]", " { Shot7\\Name:s Shot7\\NextShot:d Shot7\\MaxTime:f }",
       "   \"Seven\" 8 1.50">>,
     <<"[ SyncPoint2 : 1 ]", " { SyncPoint2\\Name:s SyncPoint2\\Type:d }", "   \"Sync\" 1">>,
     <<"[ Action0 : 1 ]",
       " { Action0\\Name:s Action0\\Type:d Action0\\CameraType:d Action0\\Target:g }",
       "   \"Odd\" 99 7 DEADBEEF_00000001">>,
     <<"[ Action1 : 1 ]", " { Action1\\Name:s Action1\\Type:d Action1\\Shot:d }",
       "   \"Bad\" abc 2">>,
     <<"[ Action2 : 1 ]", " { Action2\\Name:s Action2\\Shot:d }", "   \"Untyped\" 3">>,
     <<"[ Action3 : 1 ]",
       " { Action3\\Name:s Action3\\Type:d Action3\\Speaker:g Action3\\Sample:s }",
       "   \"Talk\" 5 ABCABCAB_CABCABC0 \"Hello there, friend\"">>,
     <<"[ Participants : 5 ]", " { PGuid:g           }", "   P1 ", "   P2 ", "">>,
     <<"[ CameraPath : 1 ]", " { GUID:s Loops:d }", "   \"Path\" 2", "[ Keyframes : 1 ]",
       " { PosX:d PosY:d PosZ:d OriX:d OriY:d OriZ:d OriW:d }", "   1 2 3 4 5 6 7",
       "   8 9 10 11 12 13 14", "">>,
     <<"[ CameraPath : 1 ]", " { GUID:s Loops:d }", "   \"Bare\" 3">>,
     <<"[ Action-1 : 1 ]", " { Action-1\\Shot:d Action-1\\FXType:d }", "   0 3">>,
     <<"[ Cinema : 1 ]", " { GUID:s ObjName:s }", "   \"G2\" \"Other\"">>,
     <<"[ Shot0 : 1 ]", " { Shot0\\Name:s }", "   \"Zero\"">>,
     <<"[ Shot4 : 1 ]", "no descriptor here", "   \"Four\" 5">>,
     <<"[ Shot5 : 1 ]", " { Shot5\\Name:s }">>,
     <<"[ Action6 : 1 ]">>,
     <<"[ CameraPath : 1 ]", " { GUID:s Loops:d }", "   \"Empty\" 4", "[ Keyframes : 1 ]",
       " { PosX:d PosY:d PosZ:d OriX:d OriY:d OriZ:d OriW:d }", "">>,
     <<"[ Participants : 1 ]", " { PGuid:g           }", "   P3 ", "   {P4} ", "   P5 ", "">>,
     <<"// [ Shot9 : 1 ]", "[ Shot1 : 1 ]", " { Shot1\\Name:s }", "   \"One\"">> >>

\* the texts handed to parseCinemaFile without passing through the encoder
HandTexts ==
  {join(first \o Flatten([k \in 1..Cardinality(pick) |-> BlockPool[Nth(pick, k)]]), "\n") :
     first \in FirstSections,
     pick \in {S \in SUBSET (1..Len(BlockPool)) : Cardinality(S) <= MaxBlocks}}

-----------------------------------------------------------------------------
(* Operations *)

Seeds == {"u", "v"}

\* the random source as the editor's first render finds it
MountRng == [seed |-> "m", n |-> 0]

\* useState([createDefaultCinema()])
InitialCinema == createDefaultCinema(randomUUID(MountRng), randomUUID(Advance(MountRng)))

Init ==
  /\ input = <<>>
  /\ content = ""
  /\ lines = <<>>
  /\ pc = "idle"
  /\ i = 0
  /\ startIndex = 0
  /\ cinema = NewCinema
  /\ headerSeen = FALSE
  /\ cinemas = <<>>
  /\ result = <<>>
  /\ escaped = FALSE
  /\ caught = FALSE
  /\ rng = [seed |-> "u", n |-> 0]
  /\ call = [fn |-> "none"]
  /\ editor = [cinemas |-> <<InitialCinema>>, selectedCinemaIndex |-> 0]

\* the editor exports its records: exportMultipleCinemas(cinemas)
Encode ==
  /\ pc = "idle"
  /\ \E recs \in InputLists :
       /\ input' = recs
       /\ content' = exportMultipleCinemas(recs)
  /\ pc' = "text"
  /\ UNCHANGED <<editor, call, lines, i, startIndex, cinema, headerSeen, cinemas, result, escaped, caught,
                 rng>>

\* a file that did not come from the encoder is opened
Load ==
  /\ pc = "idle"
  /\ \E text \in HandTexts : content' = text
  /\ pc' = "text"
  /\ UNCHANGED <<editor, call, input, lines, i, startIndex, cinema, headerSeen, cinemas, result, escaped,
                 caught, rng>>

\* parseCinemaFile(content) up to its loop
ParseBegin ==
  /\ pc = "text"
  /\ lines' = SplitOn(content, {"\n"})
  /\ cinemas' = <<>>
  /\ i' = 0
  /\ pc' = "file"
  /\ \E seed \in Seeds : rng' = [seed |-> seed, n |-> 0]
  /\ UNCHANGED <<editor, call, input, content, startIndex, cinema, headerSeen, result, escaped, caught>>

\* parseCinemaFile: a comment line or an empty line
FileSkip ==
  /\ pc = "file" /\ i < Len(lines)
  /\ startsWith(trim(Line(i)), "//") \/ trim(Line(i)) = ""
  /\ i' = i + 1
  /\ UNCHANGED <<editor, call, input, content, lines, pc, startIndex, cinema, headerSeen, cinemas, result,
                 escaped, caught, rng>>

\* parseCinemaFile: a Cinema header; parseSingleCinema(lines, i) starts
FileCinema ==
  /\ pc = "file" /\ i < Len(lines)
  /\ ~(startsWith(trim(Line(i)), "//") \/ trim(Line(i)) = "")
  /\ IsCinemaHeader(trim(Line(i)))
  /\ pc' = "single"
  /\ startIndex' = i
  /\ cinema' = NewCinema
  /\ headerSeen' = FALSE
  /\ UNCHANGED <<editor, call, input, content, lines, i, cinemas, result, escaped, caught, rng>>

\* parseCinemaFile: any other line
FileOther ==
  /\ pc = "file" /\ i < Len(lines)
  /\ ~(startsWith(trim(Line(i)), "//") \/ trim(Line(i)) = "")
  /\ ~IsCinemaHeader(trim(Line(i)))
  /\ i' = i + 1
  /\ UNCHANGED <<editor, call, input, content, lines, pc, startIndex, cinema, headerSeen, cinemas, result,
                 escaped, caught, rng>>

\* parseCinemaFile: the loop is over, return cinemas
FileReturn ==
  /\ pc = "file" /\ i >= Len(lines)
  /\ result' = cinemas
  /\ pc' = "done"
  /\ UNCHANGED <<editor, call, input, content, lines, i, startIndex, cinema, headerSeen, cinemas, escaped,
                 caught, rng>>

\* parseSingleCinema returns { cinema, endIndex: i }; the caller pushes the
\* record and moves its cursor to endIndex
ReturnCinema ==
  /\ cinemas' = Append(cinemas, cinema)
  /\ pc' = "file"
  /\ UNCHANGED <<editor, call, input, content, lines, i, startIndex, cinema, headerSeen, result, escaped,
                 caught, rng>>

\* parseSingleCinema: the next Cinema header ends the record
SingleBoundary == AtBranch("return") /\ ReturnCinema

\* parseSingleCinema: the end of the input ends the record
SingleEnd == pc = "single" /\ i >= Len(lines) /\ ReturnCinema

\* parseSingleCinema: the Cinema header branch
SingleCinemaHeader ==
  /\ AtBranch("cinema")
  /\ IF ParseValuesThrows(i) THEN Raise
     ELSE /\ cinema' = CinemaFromHeader(cinema, SectionValues(i))
          /\ headerSeen' = TRUE
          /\ i' = i + 3
          /\ UNCHANGED <<editor, call, input, content, lines, pc, startIndex, cinemas, result, escaped,
                         caught, rng>>

\* parseSingleCinema: the Shot branch
SingleShot ==
  /\ AtBranch("shot")
  /\ IF ParseValuesThrows(i) THEN Raise
     ELSE /\ cinema' = [cinema EXCEPT !.shots =
                          Append(@, ShotFromSection(randomUUID(rng),
                                                    SectionIndex(trim(Line(i)), "Shot"),
                                                    SectionValues(i)))]
          /\ rng' = Advance(rng)
          /\ i' = i + 3
          /\ UNCHANGED <<editor, call, input, content, lines, pc, startIndex, headerSeen, cinemas, result,
                         escaped, caught>>

\* parseSingleCinema: the SyncPoint branch
SingleSyncPoint ==
  /\ AtBranch("syncPoint")
  /\ IF ParseValuesThrows(i) THEN Raise
     ELSE /\ cinema' = [cinema EXCEPT !.syncPoints =
                          Append(@, SyncPointFromSection(randomUUID(rng),
                                                         SectionIndex(trim(Line(i)), "SyncPoint"),
                                                         SectionValues(i)))]
          /\ rng' = Advance(rng)
          /\ i' = i + 3
          /\ UNCHANGED <<editor, call, input, content, lines, pc, startIndex, headerSeen, cinemas, result,
                         escaped, caught>>

\* parseSingleCinema: the Action branch
SingleAction ==
  /\ AtBranch("action")
  /\ IF ParseValuesThrows(i) THEN Raise
     ELSE /\ cinema' = [cinema EXCEPT !.actions =
                          Append(@, ActionFromSection(randomUUID(rng),
                                                      SectionIndex(trim(Line(i)), "Action"),
                                                      SectionValues(i)))]
          /\ rng' = Advance(rng)
          /\ i' = i + 3
          /\ UNCHANGED <<editor, call, input, content, lines, pc, startIndex, headerSeen, cinemas, result,
                         escaped, caught>>

\* parseSingleCinema: the Participants branch
SingleParticipants ==
  /\ AtBranch("participants")
  /\ LET read == ParticipantsLoop(lines, i + 2, cinema.participants) IN
       /\ cinema' = [cinema EXCEPT !.participants = read.participants]
       /\ i' = read.i
  /\ UNCHANGED <<editor, call, input, content, lines, pc, startIndex, headerSeen, cinemas, result, escaped,
                 caught, rng>>

\* the CameraPath branch: the path cp gets the keyframes read, and the cursor
\* moves behind them
PushCameraPath(cp, read) ==
  /\ cinema' = [cinema EXCEPT !.cameraPaths = Append(@, [cp EXCEPT !.keyframes = read.keyframes])]
  /\ i' = read.i

\* parseSingleCinema: the CameraPath branch, with its Keyframes block
SingleCameraPath ==
  /\ AtBranch("cameraPath")
  /\ IF ParseValuesThrows(i) THEN Raise
     ELSE /\ PushCameraPath(CameraPathFromSection(randomUUID(rng), SectionValues(i)),
                            CameraPathKeyframes(lines, i + 3))
          /\ rng' = Advance(rng)
          /\ UNCHANGED <<editor, call, input, content, lines, pc, startIndex, headerSeen, cinemas, result,
                         escaped, caught>>

\* parseSingleCinema: a line no branch takes
SingleSkip ==
  /\ AtBranch("skip")
  /\ i' = i + 1
  /\ UNCHANGED <<editor, call, input, content, lines, pc, startIndex, cinema, headerSeen, cinemas, result,
                 escaped, caught, rng>>

Next ==
  \/ Encode
  \/ Load
  \/ ParseBegin
  \/ FileSkip
  \/ FileCinema
  \/ FileOther
  \/ FileReturn
  \/ SingleBoundary
  \/ SingleEnd
  \/ SingleCinemaHeader
  \/ SingleShot
  \/ SingleSyncPoint
  \/ SingleAction
  \/ SingleParticipants
  \/ SingleCameraPath
  \/ SingleSkip

Spec == Init /\ [][Next]_vars

\* a step of a running parseCinemaFile call
DecodeStep ==
  \/ ParseBegin
  \/ FileSkip
  \/ FileCinema
  \/ FileOther
  \/ FileReturn
  \/ SingleBoundary
  \/ SingleEnd
  \/ SingleCinemaHeader
  \/ SingleShot
  \/ SingleSyncPoint
  \/ SingleAction
  \/ SingleParticipants
  \/ SingleCameraPath
  \/ SingleSkip

\* a call of parseCinemaFile is due or running
Busy == pc \in {"text", "file", "single"}

\* the call runs on without being suspended, it is synchronous code: weak
\* fairness of its steps, with the states in which a step is possible
\* written out as Busy
LiveSpec == Spec /\ ([]<>(~Busy) \/ []<><<DecodeStep>>_vars)

-----------------------------------------------------------------------------
(* Comparing records *)

\* 10^-6, in the unit of the fractions
Tolerance == Unit \div 10 ^ 6

\* |a - b| in units of 10^-7, capped at one whole
Distance(a, b) ==
  IF IsNaN(a) \/ IsNaN(b) THEN (IF a = b THEN 0 ELSE Unit)
  ELSE IF a.i = b.i THEN (IF a.f >= b.f THEN a.f - b.f ELSE b.f - a.f)
  ELSE IF a.i = b.i + 1 THEN Unit + a.f - b.f
  ELSE IF b.i = a.i + 1 THEN Unit + b.f - a.f
  ELSE Unit

Near(a, b) == Distance(a, b) <= Tolerance

NearAll(s, t) == Len(s) = Len(t) /\ \A k \in 1..Len(s) : Near(s[k], t[k])

\* the fields the format writes with the :f type
FloatFields ==
  {"maxTime", "time", "offset", "absoluteTimeStart", "duration", "defaultLength", "startFOV",
   "endFOV", "magnitude", "frequency", "targetVal", "length", "playSpeed"}

\* the fields the format writes with :fff or :ffffff
VectorFields ==
  {"startOrient", "endOrient", "startOffset", "endOffset", "targetOffset", "pos", "orient",
   "scale", "bBox", "range", "min", "camPosOffset", "camRotOffset", "lookatOffset",
   "initialPos", "orientation", "localBoundingBox"}

\* the fields the format writes with :s
StringFields ==
  {"guid", "objName", "scriptResource", "name", "sample", "anim", "animName", "animGroup",
   "triggerName"}

\* the fields the format writes with :g
IdentFields ==
  {"target", "speaker", "object", "location", "facing", "character", "lookatGuid"}

\* the same domain data: floats within the tolerance, the rest equal; the
\* editor's own id is not domain data
SameFields(r, d) ==
  /\ DOMAIN r = DOMAIN d
  /\ \A k \in DOMAIN r \ {"id"} :
       CASE k \in FloatFields -> Near(r[k], d[k])
         [] k \in VectorFields -> NearAll(r[k], d[k])
         [] OTHER -> r[k] = d[k]

SameElements(rs, ds) ==
  Len(rs) = Len(ds) /\ \A k \in 1..Len(rs) : SameFields(rs[k], ds[k])

SameCinema(r, d) ==
  /\ r.guid = d.guid
  /\ r.objName = d.objName
  /\ Near(r.duration, d.duration)
  /\ SameFields(r.properties, d.properties)
  /\ SameElements(r.shots, d.shots)
  /\ SameElements(r.syncPoints, d.syncPoints)
  /\ SameElements(r.actions, d.actions)
  /\ r.participants = d.participants
  /\ SameElements(r.cameraPaths, d.cameraPaths)

\* every element's index is its array position
IndexedByPosition(elems) == \A k \in 1..Len(elems) : elems[k].index = k - 1

\* the records C1 and C2 speak of
RoundTripShape(r) ==
  /\ Len(r.shots) >= 1 /\ IndexedByPosition(r.shots)
  /\ Len(r.syncPoints) >= 1 /\ IndexedByPosition(r.syncPoints)
  /\ IndexedByPosition(r.actions)
  /\ Len(r.cameraPaths) >= 1
  /\ \A k \in 1..Len(r.cameraPaths) : Len(r.cameraPaths[k].keyframes) >= 1

\* sub occurs in s
Contains(s, sub) ==
  \E k \in 1..(Len(s) - Len(sub) + 1) : SubSeq(s, k, k + Len(sub) - 1) = sub

NoQuote(s) == ~includes(s, "\"") /\ ~includes(s, "\n")

IsToken(s) ==
  s # "" /\ \A k \in 1..Len(s) : CharAt(s, k) \notin WhiteSpace \cup {"\""}

CleanFields(r) ==
  \A k \in DOMAIN r :
    /\ k \in StringFields => NoQuote(r[k])
    /\ k \in IdentFields => IsToken(r[k])

CleanElements(rs) == \A k \in 1..Len(rs) : CleanFields(rs[k])

\* a record whose text the value-line tokenizer reads back as written
CleanCinema(r) ==
  /\ CleanFields(r)
  /\ CleanFields(r.properties)
  /\ CleanElements(r.shots)
  /\ CleanElements(r.syncPoints)
  /\ CleanElements(r.actions)
  /\ CleanElements(r.cameraPaths)
  /\ \A k \in 1..Len(r.participants) :
       /\ IsToken(r.participants[k])
       /\ ~startsWith(r.participants[k], "[")
       /\ ~startsWith(r.participants[k], "{")

\* one record was encoded and the text decoded
DecodedOne == pc = "done" /\ Len(input) = 1 /\ RoundTripShape(input[1])

-----------------------------------------------------------------------------
(* C1: single-record round trip *)

\* C1 as stated: a record with at least one shot, one sync point and one
\* camera path with a keyframe, indices equal to positions, encoded and then
\* decoded, comes back as exactly one record with the same domain data
\* (floats within 10^-6).
C1_RoundTripAnyRecord ==
  DecodedOne => (~caught /\ Len(result) = 1 /\ SameCinema(input[1], result[1]))

\* C1, for the records whose text fields hold no double quote or line break
\* and whose identifier fields and participants are non-empty tokens free of
\* white space and quotes: encoded and then decoded, the record comes back as
\* exactly one record with the same domain data (floats within 10^-6).
C1_RoundTripCleanRecord ==
  (DecodedOne /\ CleanCinema(input[1]))
    => (~caught /\ Len(result) = 1 /\ SameCinema(input[1], result[1]))

\* a clean record with a dialog line holding a comma and spaces went through
C1_Witness ==
  /\ DecodedOne /\ CleanCinema(input[1])
  /\ input[1].actions[1].type = "dialog"
  /\ Len(result) = 1
  /\ result[1].actions[1].sample = "Hello there, friend"
  /\ result[1].objName = "New Cinema"

-----------------------------------------------------------------------------
(* C2: multi-record round trip *)

\* C2: two records of the C1 kind, encoded together and decoded, come back as
\* two records, the first matching the first and the second the second.
C2_RoundTripTwoRecords ==
  (pc = "done" /\ Len(input) = 2
     /\ \A k \in 1..2 : RoundTripShape(input[k]) /\ CleanCinema(input[k]))
    => (Len(result) = 2 /\ \A k \in 1..2 : SameCinema(input[k], result[k]))

-----------------------------------------------------------------------------
(* C3: record boundary *)

\* C3: once the decoder has consumed a record's Cinema header, whatever
\* values it carried, the next Cinema header ends the record: the record is
\* handed back and that header is left for the next record.
C3_HeaderEndsRecord ==
  [][(pc = "single" /\ headerSeen /\ i < Len(lines) /\ IsCinemaHeader(trim(Line(i))))
       => (pc' = "file" /\ i' = i /\ cinemas' = Append(cinemas, cinema))]_vars

-----------------------------------------------------------------------------
(* C4: malformed or cut-short sections *)

\* C4: an input whose Cinema section is complete and that is followed by
\* malformed or cut-short sections still yields at least that record.
C4_KeepsParsedRecords ==
  (pc = "done" /\ (cinemas # <<>> \/ (headerSeen /\ startIndex + 3 <= Len(lines))))
    => result # <<>>

-----------------------------------------------------------------------------
(* C5: decode is total *)

\* every member is a record of the Cinema shape
IsCinemaList(rs) == \A k \in 1..Len(rs) : DOMAIN rs[k] = DOMAIN NewCinema

\* C5: parseCinemaFile hands its caller a list of records, possibly empty,
\* and never an exception: when anything is thrown inside, the list is empty.
C5_DecodeTotal ==
  pc = "done" => (~escaped /\ IsCinemaList(result) /\ (caught => result = <<>>))

\* a cut-short section threw inside the decoder and the caller got the empty list
C5_Witness == pc = "done" /\ caught /\ result = <<>> /\ headerSeen

-----------------------------------------------------------------------------
(* C6: unknown type code *)

\* the key of the Type field of the Action section whose header is line k
TypeKeyAt(k) == ActionKeyPrefix(SectionIndex(trim(Line(k)), "Action")) \o "Type"

\* the Type value of that section is missing or is no code of the table
UnknownTypeAt(k) ==
  \/ TypeKeyAt(k) \notin DOMAIN SectionValues(k)
  \/ ACTION_TYPE_REVERSE(parseIntVal(SectionValues(k)[TypeKeyAt(k)])) = ""

\* the fields only the camera variant has
CameraFieldNames ==
  {"cameraType", "target", "relative", "startOrient", "endOrient", "startOffset", "endOffset",
   "targetOffset", "startFOV", "endFOV", "transitionPop", "loop", "endSyncPoint"}

HasDefaultCameraFields(a) ==
  /\ CameraFieldNames \subseteq DOMAIN a
  /\ \A f \in CameraFieldNames : a[f] = createDefaultAction("x", "camera", 0)[f]

LastOf(elems) == elems[Len(elems)]

\* C6: decoding an Action section whose Type value is missing or is none of
\* 2, 4, 5, 6, 8, 9, 10 appends one camera action whose camera fields all
\* hold the default camera values, and the decoder goes on.
C6_UnknownTypeGivesDefaultCamera ==
  [][(AtBranch("action") /\ ~ParseValuesThrows(i) /\ UnknownTypeAt(i))
       => /\ pc' = "single"
          /\ Len(cinema'.actions) = Len(cinema.actions) + 1
          /\ LastOf(cinema'.actions).type = "camera"
          /\ HasDefaultCameraFields(LastOf(cinema'.actions))]_vars

-----------------------------------------------------------------------------
(* C7: type and code agree after decode *)

ActionsOf(rs) ==
  UNION {{rs[k].actions[j] : j \in 1..Len(rs[k].actions)} : k \in 1..Len(rs)}

\* C7: every action the decoder has built, in the record in progress, in
\* the records finished and in the list returned, has typeNum equal to the
\* code ACTION_TYPE_MAP gives its type, whatever Type value the input had.
C7_TypeNumIsCodeOfType ==
  \A a \in ActionsOf(result) \cup ActionsOf(cinemas) \cup ActionsOf(<<cinema>>) :
    a.type \in ActionTypes /\ a.typeNum = Num(ACTION_TYPE_MAP[a.type])

\* a section with Type 99 and one with Type 5 were decoded and returned
C7_Witness ==
  /\ pc = "done"
  /\ \E a \in ActionsOf(result) : a.name = "Odd" /\ a.type = "camera"
  /\ \E a \in ActionsOf(result) : a.name = "Talk" /\ a.type = "dialog"

-----------------------------------------------------------------------------
(* C8: the encoder writes the variant's code and schema *)

\* the key of a descriptor field: field.split(':')[0]
FieldKey(field) == SplitOn(field, {":"})[1]

KeysOf(fields) == {FieldKey(fields[k]) : k \in 1..Len(fields)}

\* the keys a descriptor line names
DescriptorKeys(descriptor) == KeysOf(SplitWS(trim(HeaderMatch(descriptor).body)))

\* every key some variant's descriptor names, for the prefix Action0
AllActionKeys == UNION {DescriptorKeys(ActionDescriptor(t, "Action0")) : t \in ActionTypes}

\* a field map holding the code of variant t and nothing else
TypeOnly(t) == "Action0\\Type" :> NatToStr(ACTION_TYPE_MAP[t])

\* a value every value parser turns into something other than a default
Probe == "7 7 7 7 7 7"

\* the decoder reads key when it builds an action of variant t
ReadsKey(t, key) ==
  ActionFromSection("x", 0, (key :> Probe) @@ TypeOnly(t)) # ActionFromSection("x", 0, TypeOnly(t))

\* the keys the decoder reads for variant t: its schema
DecoderSchema(t) ==
  {"Action0\\Type"} \cup {key \in AllActionKeys \ {"Action0\\Type"} : ReadsKey(t, key)}

\* the section has the descriptor of a's variant and the Type value is its code
EmitsVariant(a, section) ==
  /\ Len(section) = 3
  /\ DescriptorKeys(section[2]) = DecoderSchema(a.type)
  /\ "Action0\\Type" \in DOMAIN parseValues(section[2], section[3])
  /\ parseValues(section[2], section[3])["Action0\\Type"] = NatToStr(ACTION_TYPE_MAP[a.type])

\* C8: for every action of a record handed to the encoder, exportAction
\* writes as Type value the code ACTION_TYPE_MAP gives the action's type,
\* under the descriptor line of that same variant.
C8_EncodeWritesVariantCode ==
  (pc = "text" /\ input # <<>>)
    => \A a \in ActionsOf(input) : EmitsVariant(a, SplitOn(exportAction(a, 0), {"\n"}))

\* a record with a fade action and a dialog action was encoded
C8_Witness ==
  /\ pc = "text" /\ input # <<>>
  /\ \E a \in ActionsOf(input) : a.type = "fade"
  /\ \E a \in ActionsOf(input) : a.type = "dialog"
  /\ Contains(content, "Action0\\FXType:d")

-----------------------------------------------------------------------------
(* C9: the encoder names sections by position *)

\* the lines that are headers of indexed sections called name
HeaderPositions(ls, name) == {p \in 1..Len(ls) : IndexedMatch(trim(ls[p]), name).ok}

\* line p is the header of section <name><k> and every field of its
\* descriptor line has the prefix <name><k>\
SectionNamed(ls, p, name, k) ==
  /\ ls[p] = "[ " \o name \o NatToStr(k) \o " : 1 ]"
  /\ p < Len(ls)
  /\ \A key \in DescriptorKeys(ls[p + 1]) : startsWith(key, name \o NatToStr(k) \o "\\")

\* the sections called name are as many as elems and the k-th is <name><k-1>
NamedByPosition(ls, name, elems) ==
  /\ Cardinality(HeaderPositions(ls, name)) = Len(elems)
  /\ \A k \in 1..Len(elems) : SectionNamed(ls, Nth(HeaderPositions(ls, name), k), name, k - 1)

\* r with every stored index replaced by another value
Restamped(r) ==
  [r EXCEPT !.shots = [k \in 1..Len(r.shots) |-> [r.shots[k] EXCEPT !.index = 40 + k]],
            !.syncPoints = [k \in 1..Len(r.syncPoints) |->
                              [r.syncPoints[k] EXCEPT !.index = 50 + k]],
            !.actions = [k \in 1..Len(r.actions) |-> [r.actions[k] EXCEPT !.index = 60 + k]]]

PositionsOnly(r, text) ==
  /\ NamedByPosition(SplitOn(text, {"\n"}), "Shot", r.shots)
  /\ NamedByPosition(SplitOn(text, {"\n"}), "SyncPoint", r.syncPoints)
  /\ NamedByPosition(SplitOn(text, {"\n"}), "Action", r.actions)
  /\ text = exportCinema(Restamped(r))

\* C9: for every record, the element at position i of shots, syncPoints and
\* actions is written as section Shot<i>, SyncPoint<i>, Action<i> with field
\* prefixes of the same i, and the text does not depend on any stored index.
C9_EncodeNamesByPosition ==
  (pc = "text" /\ input # <<>>)
    => \A k \in 1..Len(input) : PositionsOnly(input[k], exportCinema(input[k]))

\* a record whose stored indices are not its positions was encoded
C9_Witness ==
  /\ pc = "text" /\ Len(input) = 1
  /\ input[1].shots[1].index = 7 /\ input[1].actions[2].index = 5
  /\ Contains(content, "[ Shot0 : 1 ]") /\ ~Contains(content, "[ Shot7 : 1 ]")

-----------------------------------------------------------------------------
(* C10: the decoded index is the section suffix *)

IndexedBranches == {"shot", "syncPoint", "action"}

SectionNameOf(b) ==
  CASE b = "shot" -> "Shot" [] b = "syncPoint" -> "SyncPoint" [] b = "action" -> "Action"

CollectionOf(c, b) ==
  CASE b = "shot" -> c.shots [] b = "syncPoint" -> c.syncPoints [] b = "action" -> c.actions

\* new is old with one element more, whose index is k
AppendsIndexed(old, new, k) ==
  /\ Len(new) = Len(old) + 1
  /\ SubSeq(new, 1, Len(old)) = old
  /\ LastOf(new).index = k

\* C10: each ShotK, SyncPointK and ActionK section the decoder comes to
\* appends exactly one element to its collection of the record in progress,
\* and the element's index is K.
C10_SectionAppendsIndexK ==
  [][\A b \in IndexedBranches :
       AtBranch(b)
         => AppendsIndexed(CollectionOf(cinema, b), CollectionOf(cinema', b),
                           SectionIndex(trim(Line(i)), SectionNameOf(b)))]_vars

-----------------------------------------------------------------------------
(* C11: keyframes stay with their camera path *)

\* the keyframe lists of the camera paths of the records rs, in order
KeyframeLists(rs) ==
  Flatten([k \in 1..Len(rs) |->
             [j \in 1..Len(rs[k].cameraPaths) |-> rs[k].cameraPaths[j].keyframes]])

\* C11: when the encoder's output for records with several camera paths is
\* decoded, the camera paths come back in order, each with exactly the
\* keyframes of its own Keyframes block: none dropped, none moved to
\* another path.
C11_KeyframesStayWithPath ==
  (pc = "done" /\ input # <<>>)
    => (~caught /\ KeyframeLists(result) = KeyframeLists(input))

\* two paths with one and two keyframes were encoded and decoded
C11_Witness ==
  /\ pc = "done" /\ Len(input) = 1 /\ Len(result) = 1
  /\ Len(result[1].cameraPaths) = 2
  /\ Len(result[1].cameraPaths[1].keyframes) = 1
  /\ Len(result[1].cameraPaths[2].keyframes) = 2
  /\ result[1].cameraPaths[2].keyframes[2].posX = Num(102)

-----------------------------------------------------------------------------
(* C12: every camera path has a keyframe *)

CameraPathsOf(rs) ==
  UNION {{rs[k].cameraPaths[j] : j \in 1..Len(rs[k].cameraPaths)} : k \in 1..Len(rs)}

ZeroKeyframe ==
  [posX |-> Num(0), posY |-> Num(0), posZ |-> Num(0), oriX |-> Num(0), oriY |-> Num(0),
   oriZ |-> Num(0), oriW |-> Num(0)]

\* the 0-based line k is a blank line, a header or past the end
EndsBlock(k) == k >= Len(lines) \/ trim(Line(k)) = "" \/ startsWith(trim(Line(k)), "[")

\* no Keyframes block starts at the 0-based line k, or the block that does
\* has no value line: after its header and descriptor only lines starting
\* with "{" come before the block ends
NoKeyframeLineAt(k) ==
  \/ k >= Len(lines)
  \/ ~startsWith(trim(Line(k)), "[ Keyframes :")
  \/ \E e \in (k + 2)..Len(lines) :
       /\ EndsBlock(e)
       /\ \A j \in (k + 2)..(e - 1) : ~EndsBlock(j) /\ startsWith(trim(Line(j)), "{")

\* C12: every camera path the decoder has built has at least one keyframe,
\* and a CameraPath section with no Keyframes block, or with a block that
\* has no value line, gives a path with exactly one keyframe, all zero.
C12_PathHasKeyframe ==
  /\ [](\A cp \in CameraPathsOf(result) \cup CameraPathsOf(cinemas) \cup CameraPathsOf(<<cinema>>) :
          Len(cp.keyframes) >= 1)
  /\ [][(AtBranch("cameraPath") /\ ~ParseValuesThrows(i) /\ NoKeyframeLineAt(i + 3))
          => /\ Len(cinema'.cameraPaths) = Len(cinema.cameraPaths) + 1
             /\ LastOf(cinema'.cameraPaths).keyframes = <<ZeroKeyframe>>]_vars

\* a path without a Keyframes block and a path with an empty block came back
C12_Witness ==
  /\ pc = "done"
  /\ \E cp \in CameraPathsOf(result) : cp.guid = "Bare" /\ cp.keyframes = <<ZeroKeyframe>>
  /\ \E cp \in CameraPathsOf(result) : cp.guid = "Empty" /\ cp.keyframes = <<ZeroKeyframe>>

-----------------------------------------------------------------------------
(* Direct calls of the codec's functions *)

codecVars ==
  <<input, content, lines, pc, i, startIndex, cinema, headerSeen, cinemas, result, escaped,
    caught, rng>>

\* the fields a descriptor line declares, each <<name, type>>
FieldLists ==
  {<<<<"A", "s">>, <<"B", "d">>, <<"C", "f">>>>,
   <<<<"Name", "s">>, <<"Pos", "fff">>, <<"Id", "g">>>>,
   <<<<"Box", "ffffff">>, <<"N", "d">>>>,
   <<<<"Color", "dddd">>, <<"Target", "f">>, <<"Note", "s">>>>,
   <<<<"P", "fff">>, <<"Q", "dddd">>>>,
   <<<<"Shot0\\Name", "s">>, <<"Shot0\\NextShot", "d">>, <<"Shot0\\SkipShot", "d">>,
     <<"Shot0\\MaxTime", "f">>, <<"Shot0\\Time", "f">>>>}

\* the descriptor line that declares the fields fs
HeaderOf(fs) == " { " \o join([k \in 1..Len(fs) |-> fs[k][1] \o ":" \o fs[k][2]], " ") \o " }"

\* the field-descriptor lines handed to parseValues
SchemaChoices ==
  {HeaderOf(fs) : fs \in FieldLists} \cup {" { PGuid:g           }", "{X:d}", "no braces"}

\* the tokens written on a value line
TokenChoices ==
  {<<>>,
   <<"7">>,
   <<"1", "2">>,
   <<"\"Hello there, friend\"", "7", "1.50">>,
   <<"\"a\"", "1.5", "2.5", "3.5", "ID_1">>,
   <<"10", "20", "30", "40", "0.5">>,
   <<"1", "2", "3", "4", "5", "6", "7", "8">>,
   <<"\"\"", "x\"y z\"w", "3">>,
   <<"7", "\"open end">>,
   <<"1", "\t", "2">>}

\* the spaces before the first token, between two tokens and after the last
Paddings ==
  {[lead |-> 0, gap |-> 1, trail |-> 0],
   [lead |-> 3, gap |-> 2, trail |-> 1],
   [lead |-> 1, gap |-> 6, trail |-> 4]}

\* the value line that holds the tokens with the padding pad
Padded(tokens, pad) == Spaces(pad.lead) \o join(tokens, Spaces(pad.gap)) \o Spaces(pad.trail)

\* parseValues(headerLine, valueLine): its arguments, the tokens its scanner
\* found and the map it returned; written is what valueLine was built from,
\* shot is the element the Shot branch makes of the map for [ Shot0 : 1 ]
ParseValuesCall(headerLine, valueLine, written) ==
  [fn |-> "parseValues", headerLine |-> headerLine, valueLine |-> valueLine,
   written |-> written, tokens |-> Tokenize(valueLine),
   ret |-> parseValues(headerLine, valueLine),
   shot |-> ShotFromSection("u", 0, parseValues(headerLine, valueLine))]

CallParseValues ==
  /\ pc = "idle" /\ call.fn = "none"
  /\ \E headerLine \in SchemaChoices, written \in TokenChoices, pad \in Paddings :
       call' = ParseValuesCall(headerLine, Padded(written, pad), written)
  /\ UNCHANGED <<editor, codecVars>>

\* the numbers handed to formatFloat
FloatArgs ==
  FloatChoices \cup
    {Num(0), Num(1), Neg(Num(2)), Dec(1, 5000000), Dec(1, 2566370), Neg(Dec(1, 5000000)),
     Dec(0, 9999996), Dec(12, 3400000), Dec(0, 10), Neg(Dec(0, 1234567))}

\* the column widths handed to the formatters
WidthChoices == {0, 6, 12}

CallFormatFloat ==
  /\ pc = "idle" /\ call.fn = "none"
  /\ \E n \in FloatArgs, minWidth \in WidthChoices :
       call' = [fn |-> "formatFloat", n |-> n, minWidth |-> minWidth,
                ret |-> formatFloat(n, minWidth)]
  /\ UNCHANGED <<editor, codecVars>>

\* the numbers handed to formatInt and formatQuadInt
IntArgs ==
  {Num(0), Num(7), Num(-3), Num(32766), Dec(1, 5000000), Neg(Dec(1, 5000000)),
   Dec(432, 9000000), Neg(Dec(0, 2500000))}

CallFormatInt ==
  /\ pc = "idle" /\ call.fn = "none"
  /\ \E n \in IntArgs, minWidth \in WidthChoices :
       call' = [fn |-> "formatInt", n |-> n, minWidth |-> minWidth,
                ret |-> formatInt(n, minWidth)]
  /\ UNCHANGED <<editor, codecVars>>

CallFormatQuadInt ==
  /\ pc = "idle" /\ call.fn = "none"
  /\ \E a \in IntArgs, b \in {Num(255), Neg(Dec(7, 7500000))} :
       call' = [fn |-> "formatQuadInt", arr |-> <<a, b, Num(0), a>>,
                ret |-> formatQuadInt(<<a, b, Num(0), a>>)]
  /\ UNCHANGED <<editor, codecVars>>

CallNext ==
  \/ CallParseValues
  \/ CallFormatFloat
  \/ CallFormatInt
  \/ CallFormatQuadInt

CallSpec == Init /\ [][CallNext]_vars

-----------------------------------------------------------------------------
(* C13: padding tolerance *)

\* C13: for one descriptor line, value lines that hold the same tokens and
\* differ only in the number of spaces before, between and after the tokens
\* are bound by parseValues to the same field map.
C13_PaddingHasNoEffect ==
  call.fn = "parseValues"
    => \A pad \in Paddings :
         parseValues(call.headerLine, Padded(call.written, pad)) = call.ret

\* a line with a quoted text and wide padding was bound
C13_Witness ==
  /\ call.fn = "parseValues"
  /\ call.written = <<"\"Hello there, friend\"", "7", "1.50">>
  /\ Len(call.valueLine) > Len(join(call.written, " ")) + 6
  /\ DOMAIN call.ret = {"A", "B", "C"}
  /\ call.ret["A"] = "\"Hello there, friend\""

-----------------------------------------------------------------------------
(* C14: the tokenizer contract *)

\* the reference scanner: split on spaces outside a quote run, keep every
\* other character, emit a segment when it is not empty
RECURSIVE RefScan(_, _, _, _, _)
RefScan(line, k, inQuotes, current, tokens) ==
  IF k > Len(line)
  THEN IF current = "" THEN tokens ELSE Append(tokens, current)
  ELSE IF CharAt(line, k) = "\""
  THEN RefScan(line, k + 1, ~inQuotes, current \o "\"", tokens)
  ELSE IF CharAt(line, k) = " " /\ ~inQuotes
  THEN RefScan(line, k + 1, inQuotes, "", IF current = "" THEN tokens ELSE Append(tokens, current))
  ELSE RefScan(line, k + 1, inQuotes, current \o CharAt(line, k), tokens)

RefTokens(line) == RefScan(line, 1, FALSE, "", <<>>)

\* the line holds a whitespace character other than the space
HasOtherSpace(line) == \E k \in 1..Len(line) : IsSpace(CharAt(line, k)) /\ CharAt(line, k) # " "

\* the line ends inside a quote run
EndsInQuote(line) == Cardinality({k \in 1..Len(line) : CharAt(line, k) = "\""}) % 2 = 1

\* C14: for every text line the tokens found by parseValues are the
\* reference tokens: the line split on the spaces outside a quote run, a
\* quoted run kept whole, no empty token, an unterminated quote closed by the
\* end of the line.
C14_TokensMatchReference ==
  call.fn = "parseValues" => call.tokens = RefTokens(call.valueLine)

\* the same on the lines whose only whitespace is the space and whose quotes
\* are closed
C14_PlainLinesMatchReference ==
  (call.fn = "parseValues" /\ ~HasOtherSpace(call.valueLine) /\ ~EndsInQuote(call.valueLine))
    => call.tokens = RefTokens(call.valueLine)

-----------------------------------------------------------------------------
(* C15: the binder's arities *)

\* the number of tokens the format gives to a field of each type
DeclaredArity(fieldType) ==
  CASE fieldType \in {"s", "g", "d", "f"} -> 1
    [] fieldType = "fff" -> 3
    [] fieldType = "ffffff" -> 6
    [] fieldType = "dddd" -> 4

\* the number of tokens the first k fields of fs need
RECURSIVE TokensNeeded(_, _)
TokensNeeded(fs, k) == IF k = 0 THEN 0 ELSE TokensNeeded(fs, k - 1) + DeclaredArity(fs[k][2])

\* the tokens of the k-th field of fs, joined by single spaces
FieldTokens(fs, k, tokens) ==
  join(SubSeq(tokens, TokensNeeded(fs, k - 1) + 1, TokensNeeded(fs, k)), " ")

\* C15: when the value line has at least as many tokens as the fields of the
\* descriptor line need, parseValues binds every field, the k-th one to the
\* tokens that follow those of the fields before it (1 for s, g, d, f; 3 for
\* fff; 6 for ffffff; 4 for dddd), joined by single spaces.
C15_BindsByArity ==
  \A fs \in FieldLists :
    (/\ call.fn = "parseValues"
     /\ call.headerLine = HeaderOf(fs)
     /\ Len(call.tokens) >= TokensNeeded(fs, Len(fs)))
      => /\ DOMAIN call.ret = {fs[k][1] : k \in 1..Len(fs)}
         /\ \A k \in 1..Len(fs) : call.ret[fs[k][1]] = FieldTokens(fs, k, call.tokens)

\* a text, a float triple and an identifier were bound from five tokens
C15_Witness ==
  /\ call.fn = "parseValues"
  /\ call.headerLine = " { Name:s Pos:fff Id:g }"
  /\ call.tokens = <<"\"a\"", "1.5", "2.5", "3.5", "ID_1">>
  /\ call.ret["Pos"] = "1.5 2.5 3.5"
  /\ call.ret["Id"] = "ID_1"

-----------------------------------------------------------------------------
(* C16: the binder stops where the tokens run out *)

\* the value line has fewer tokens than the fields fs need
ShortLine(fs) ==
  /\ call.fn = "parseValues"
  /\ call.headerLine = HeaderOf(fs)
  /\ Len(call.tokens) < TokensNeeded(fs, Len(fs))

\* the fields of fs whose tokens are all on the line, those with some of
\* their tokens on the line, and those with none
FullFields(fs, tokens) == {k \in 1..Len(fs) : TokensNeeded(fs, k) <= Len(tokens)}
PartFields(fs, tokens) ==
  {k \in 1..Len(fs) : TokensNeeded(fs, k - 1) < Len(tokens) /\ Len(tokens) < TokensNeeded(fs, k)}
NoneFields(fs, tokens) == {k \in 1..Len(fs) : TokensNeeded(fs, k - 1) >= Len(tokens)}

\* the tokens left for the k-th field of fs, then 0 for each missing one
ZeroFilled(fs, k, tokens) ==
  join(SubSeq(tokens, TokensNeeded(fs, k - 1) + 1, Len(tokens))
         \o [j \in 1..(TokensNeeded(fs, k) - Len(tokens)) |-> "0"], " ")

\* C16 as stated: when the value line has fewer tokens than the fields need,
\* the fields whose tokens are all present are bound as with a full line and
\* every field from the point where the tokens run out is absent from the
\* map.
C16_StopsWhereTokensRunOut ==
  \A fs \in FieldLists :
    ShortLine(fs)
      => /\ \A k \in FullFields(fs, call.tokens) :
              fs[k][1] \in DOMAIN call.ret /\ call.ret[fs[k][1]] = FieldTokens(fs, k, call.tokens)
         /\ \A k \in 1..Len(fs) \ FullFields(fs, call.tokens) : fs[k][1] \notin DOMAIN call.ret

\* the fields of the Shot section [ Shot0 : 1 ] and the text the Shot branch
\* reads when the field is absent
ShotFallbacks ==
  [name |-> [key |-> "Shot0\\Name", value |-> "Shot 0"],
   nextShot |-> [key |-> "Shot0\\NextShot", value |-> Num(0)],
   skipShot |-> [key |-> "Shot0\\SkipShot", value |-> Num(0)],
   maxTime |-> [key |-> "Shot0\\MaxTime", value |-> Num(10)],
   time |-> [key |-> "Shot0\\Time", value |-> Num(0)]]

\* C16, amended: when the value line has fewer tokens than the fields need,
\* the fields whose tokens are all present are bound as with a full line, a
\* vector field with some of its tokens present is bound to them followed by
\* 0 for each missing one, every field with no token left is absent from the
\* map, and the Shot branch gives each absent field its fallback value.
C16_EarlyStopZeroFillsThenAbsent ==
  \A fs \in FieldLists :
    ShortLine(fs)
      => /\ \A k \in FullFields(fs, call.tokens) :
              fs[k][1] \in DOMAIN call.ret /\ call.ret[fs[k][1]] = FieldTokens(fs, k, call.tokens)
         /\ \A k \in PartFields(fs, call.tokens) :
              fs[k][1] \in DOMAIN call.ret /\ call.ret[fs[k][1]] = ZeroFilled(fs, k, call.tokens)
         /\ \A k \in NoneFields(fs, call.tokens) : fs[k][1] \notin DOMAIN call.ret
         /\ \A f \in DOMAIN ShotFallbacks :
              ShotFallbacks[f].key \notin DOMAIN call.ret => call.shot[f] = ShotFallbacks[f].value

\* a line of two tokens was bound to a text and a zero-filled triple, the
\* identifier after them was left absent, and the Shot branch fell back to
\* its own values
C16_Witness ==
  /\ call.fn = "parseValues"
  /\ call.headerLine = " { Name:s Pos:fff Id:g }"
  /\ call.tokens = <<"1", "2">>
  /\ DOMAIN call.ret = {"Name", "Pos"}
  /\ call.ret["Pos"] = "2 0 0"
  /\ call.shot.name = "Shot 0"
  /\ call.shot.maxTime = Num(10)

-----------------------------------------------------------------------------
(* C17: the boilerplate sections *)

\* the line is the header of an Action-1 or Action-2 section
BoilerplateHeader(line) ==
  startsWith(trim(line), "[ Action-1 :") \/ startsWith(trim(line), "[ Action-2 :")

\* the k-th line (0-based) is the header of a boilerplate section, or one of
\* the two lines after it with no other header in between
InBoilerplate(k) ==
  /\ k < Len(lines)
  /\ \E d \in 0..2 :
       /\ k - d >= 0
       /\ BoilerplateHeader(Line(k - d))
       /\ \A e \in 1..d : ~startsWith(trim(Line(k - d + e)), "[")

-----------------------------------------------------------------------------
(* C18: the order of the encoder's sections *)

\* what a line of the text is: a blank line, the header of a section (then
\* its name), or another line
LineKind(line) ==
  IF line = "" THEN "blank"
  ELSE IF startsWith(line, "[ ") THEN SplitOn(line, {" "})[2]
  ELSE "line"

\* the kinds of the lines of a section named name with n lines after its
\* descriptor line
SectionKinds(name, n) == <<name, "line">> \o [k \in 1..n |-> "line"]

\* the kinds of the lines of the sections named name0, name1, ... of count
\* elements
IndexedKinds(name, count) ==
  Flatten([k \in 1..count |-> SectionKinds(name \o NatToStr(k - 1), 1)])

\* the kinds of the lines of the camera paths: each CameraPath section, its
\* Keyframes section, a blank line
CameraPathKinds(cameraPaths) ==
  Flatten([k \in 1..Len(cameraPaths) |->
             SectionKinds("CameraPath", 1)
               \o SectionKinds("Keyframes", Len(cameraPaths[k].keyframes))
               \o <<"blank">>])

\* the order of lines stated for the text of the record
StatedOrder(rec) ==
  SectionKinds("Cinema", 1)
    \o IndexedKinds("Shot", Len(rec.shots))
    \o <<"blank">>
    \o IndexedKinds("SyncPoint", Len(rec.syncPoints))
    \o <<"blank", "blank">>
    \o IndexedKinds("Action", Len(rec.actions))
    \o <<"blank">>
    \o SectionKinds("Participants", Len(rec.participants))
    \o SectionKinds("Action-1", 1)
    \o SectionKinds("Action-2", 1)
    \o <<"blank">>
    \o CameraPathKinds(rec.cameraPaths)

\* C18: the lines of exportCinema's text for a record are, in this order:
\* the Cinema section, one section per shot, a blank line, one section per
\* sync point, two blank lines, one section per action, a blank line, the
\* Participants section with one line per participant, the Action-1 and the
\* Action-2 section, a blank line, and for each camera path its CameraPath
\* section, its Keyframes section and a blank line.
C18_SectionOrder ==
  /\ (pc = "text" /\ Len(input) = 1)
       => Map(LineKind, SplitOn(content, {"\n"})) = StatedOrder(input[1])
  /\ pc = "text"
       => \A k \in 1..Len(input) :
            Map(LineKind, SplitOn(exportCinema(input[k]), {"\n"})) = StatedOrder(input[k])

\* a record with shots, sync points, actions, participants and two camera
\* paths was encoded
C18_Witness ==
  /\ pc = "text"
  /\ Len(input) = 1
  /\ Len(input[1].shots) >= 2
  /\ Len(input[1].syncPoints) >= 1
  /\ Len(input[1].actions) >= 2
  /\ Len(input[1].participants) >= 1
  /\ Len(input[1].cameraPaths) >= 2
  /\ content = exportCinema(input[1])

-----------------------------------------------------------------------------
(* C19: the rendering of floats *)

\* the trailing zeros of a decimal text dropped while more than two
\* fractional digits are left
RECURSIVE StripToTwo(_)
StripToTwo(s) ==
  IF endsWith(s, "0") /\ CharAt(s, Len(s) - 2) # "."
  THEN StripToTwo(SubSeq(s, 1, Len(s) - 1))
  ELSE s

\* the stated rendering: 6 fractional digits, then trailing zeros stripped
\* down to 2 fractional digits
StatedFloat(x) == StripToTwo(toFixed6(x))

\* C19: for every finite float x, whole or not, formatFloat(x) without a
\* column width is x with 6 fractional digits and the trailing zeros then
\* stripped down to 2 fractional digits (1.5 gives 1.50, 1.0 gives 1.00).
C19_FloatRendering ==
  (call.fn = "formatFloat" /\ call.minWidth = 0) => call.ret = StatedFloat(call.n)

\* the same for the numbers whose shortest decimal text has a point
C19_FractionRendering ==
  (call.fn = "formatFloat" /\ call.minWidth = 0 /\ includes(toString(call.n), "."))
    => call.ret = StatedFloat(call.n)

-----------------------------------------------------------------------------
(* C20: the rendering of integers *)

\* x truncated toward zero
Trunc(x) == IF x.f = 0 THEN x ELSE IF x.i < 0 THEN Num(x.i + 1) ELSE Num(x.i)

\* the stated rendering of an integer field: truncated toward zero, base 10
StatedInt(x) == toString(Trunc(x))

\* C20: the text the encoder writes for an integer field (type d, and each
\* component of dddd) is the stored number truncated toward zero, in base
\* 10, for positive and negative numbers with a fraction alike.
C20_IntegerRendering ==
  /\ (call.fn = "formatInt" /\ call.minWidth = 0) => call.ret = StatedInt(call.n)
  /\ call.fn = "formatQuadInt"
       => call.ret = join([k \in 1..Len(call.arr) |-> StatedInt(call.arr[k])], " ")

\* the same for the numbers that are whole or not negative
C20_NonNegativeRendering ==
  /\ (call.fn = "formatInt" /\ call.minWidth = 0 /\ (call.n.f = 0 \/ call.n.i >= 0))
       => call.ret = StatedInt(call.n)
  /\ (call.fn = "formatQuadInt" /\ \A k \in 1..Len(call.arr) : call.arr[k].f = 0 \/ call.arr[k].i >= 0)
       => call.ret = join([k \in 1..Len(call.arr) |-> StatedInt(call.arr[k])], " ")

-----------------------------------------------------------------------------
(* C21: the Participants section *)

\* the trimmed lines from the 0-based line k up to the first blank line or
\* line that begins with "["
RECURSIVE LinesToBreak(_)
LinesToBreak(k) ==
  IF k >= Len(lines) \/ trim(Line(k)) = "" \/ startsWith(trim(Line(k)), "[") THEN <<>>
  ELSE <<trim(Line(k))>> \o LinesToBreak(k + 1)

\* the elements of seq that do not begin with "{", in order
RECURSIVE WithoutBraces(_)
WithoutBraces(seq) ==
  IF seq = <<>> THEN <<>>
  ELSE IF startsWith(seq[1], "{") THEN WithoutBraces(Tail(seq))
  ELSE <<seq[1]>> \o WithoutBraces(Tail(seq))

-----------------------------------------------------------------------------
(* C22: comments and blank lines *)

\* the line at the cursor is a comment or a blank line
AtInertLine ==
  /\ pc \in {"file", "single"}
  /\ i < Len(lines)
  /\ (startsWith(trim(Line(i)), "//") \/ trim(Line(i)) = "")

\* C22: a step of the decoder whose cursor is at a line that begins with
\* "//", whatever follows the marker, or at a blank line, moves to the next
\* line and leaves the record in progress and the finished records as they
\* are.
C22_CommentsAndBlanksInert ==
  [][AtInertLine => (i' = i + 1 /\ cinema' = cinema /\ cinemas' = cinemas)]_vars

\* the same for the blank lines and the comments that hold no "[ "
C22_PlainCommentsInert ==
  [][(AtInertLine /\ ~Contains(Line(i), "[ "))
       => (i' = i + 1 /\ cinema' = cinema /\ cinemas' = cinemas)]_vars

-----------------------------------------------------------------------------
(* C23: decoding depends on the text only *)

\* the id fields of the shots, sync points, actions and camera paths of rs
IdsOf(rs) ==
  UNION {{r.shots[k].id : k \in 1..Len(r.shots)}
           \cup {r.syncPoints[k].id : k \in 1..Len(r.syncPoints)}
           \cup {r.actions[k].id : k \in 1..Len(r.actions)}
           \cup {r.cameraPaths[k].id : k \in 1..Len(r.cameraPaths)} :
         r \in {rs[k] : k \in 1..Len(rs)}}

\* the values the random source has handed out since the call began
DrawnIds == {randomUUID([rng EXCEPT !.n = k]) : k \in 0..(rng.n - 1)}

\* C23: the result of parseCinemaFile depends on its text only: no step of
\* the decoder consults the random source, and no id of a decoded shot, sync
\* point, action or camera path is a value drawn from it, so that two calls
\* on the same text return the same graph.
C23_DecodeDependsOnTextOnly ==
  /\ [][(pc \in {"file", "single"}) => (rng' = rng)]_vars
  /\ [](pc = "done" => IdsOf(result) \cap DrawnIds = {})

-----------------------------------------------------------------------------
(* C24: one forward pass *)

\* the step is one iteration of the loop of parseCinemaFile or of
\* parseSingleCinema that ends without raising
IterationEnds ==
  \/ pc = "file" /\ pc' = "file"
  \/ pc = "single" /\ pc' = "single"

\* C24: every iteration of the two loops that ends moves the line cursor
\* forward, parseSingleCinema returns an endIndex greater than its
\* startIndex, the cursor never moves backwards during a call, and a call of
\* parseCinemaFile that has begun returns.
C24_OneForwardPass ==
  /\ [][IterationEnds => i' > i]_vars
  /\ [][(pc = "single" /\ pc' = "file") => (i' = i /\ i > startIndex)]_vars
  /\ [][(pc \in {"file", "single"}) => i' >= i]_vars
  /\ (pc = "text") ~> (pc = "done")

\* a call passed through two records and returned them with the cursor at
\* the end of the lines
C24_Witness ==
  /\ pc = "done"
  /\ ~caught
  /\ Len(result) = 2
  /\ i = Len(lines)
  /\ startIndex > 0

-----------------------------------------------------------------------------
(* C25: a section takes three lines *)

\* the branches of the sections that are a header, a descriptor line and a
\* value line
ThreeLineBranches == {"cinema", "shot", "syncPoint", "action"}

\* the number of elements decoded into the record
ElementCount(r) ==
  Len(r.shots) + Len(r.syncPoints) + Len(r.actions) + Len(r.cameraPaths) + Len(r.participants)

\* the step moves the cursor behind the three lines of the section at the
\* cursor, or, for a CameraPath section, behind them and the Keyframes
\* section that follows them
TakesThreeLines ==
  /\ (\E b \in ThreeLineBranches : AtBranch(b)) => i' = i + 3
  /\ AtBranch("cameraPath")
       => /\ i' >= i + 3
          /\ (i + 3 >= Len(lines) \/ ~startsWith(trim(Line(i + 3)), "[ Keyframes :")) => i' = i + 3

\* C25: every recognised Cinema, ShotK, SyncPointK, ActionK or CameraPath
\* header moves the cursor on by three lines (header, descriptor, value), so
\* the two lines after it are not read as headers, and adds at most one
\* element whatever those lines hold.
C25_HeaderTakesThreeLines ==
  [][(\E b \in ThreeLineBranches \cup {"cameraPath"} : AtBranch(b))
       => (TakesThreeLines /\ ElementCount(cinema') <= ElementCount(cinema) + 1)]_vars

\* the same for the headers that have two lines after them
C25_CompleteSectionTakesThreeLines ==
  [][((\E b \in ThreeLineBranches \cup {"cameraPath"} : AtBranch(b)) /\ ~ParseValuesThrows(i))
       => (TakesThreeLines /\ ElementCount(cinema') <= ElementCount(cinema) + 1)]_vars

-----------------------------------------------------------------------------
(* C26: the value line of a section has the tokens its descriptor declares *)

\* no string field of r holds a double quote
QuoteFreeFields(r) == \A k \in DOMAIN r : k \in StringFields => ~includes(r[k], "\"")

QuoteFreeElements(rs) == \A k \in 1..Len(rs) : QuoteFreeFields(rs[k])

QuoteFreeCinema(r) ==
  /\ QuoteFreeFields(r)
  /\ QuoteFreeFields(r.properties)
  /\ QuoteFreeElements(r.shots)
  /\ QuoteFreeElements(r.syncPoints)
  /\ QuoteFreeElements(r.actions)
  /\ QuoteFreeElements(r.cameraPaths)

\* the string and identifier fields of r are written as one token each
TokenFieldsCinema(r) ==
  /\ CleanFields(r)
  /\ CleanFields(r.properties)
  /\ CleanElements(r.shots)
  /\ CleanElements(r.syncPoints)
  /\ CleanElements(r.actions)
  /\ CleanElements(r.cameraPaths)

\* the lines of the encoded text
EncodedLines == SplitOn(content, {"\n"})

\* line h is the header of a section with one descriptor line and one value line
ValueSectionAt(ls, h) ==
  /\ h + 2 <= Len(ls)
  /\ startsWith(ls[h], "[ ")
  /\ LineKind(ls[h]) \notin {"Participants", "Keyframes"}

\* the sum of the arities of the fields on a descriptor line
DescriptorTokens(headerLine) ==
  LET fields == SplitWS(trim(HeaderMatch(headerLine).body))
      fs == [k \in 1..Len(fields) |-> SplitOn(fields[k], {":"})]
  IN  TokensNeeded(fs, Len(fs))

\* every value section of the encoded text has the tokens its descriptor declares
SchemaAgrees(ls) ==
  \A h \in 1..Len(ls) :
    ValueSectionAt(ls, h) => Len(Tokenize(ls[h + 2])) = DescriptorTokens(ls[h + 1])

\* C26 as stated: in the text exportCinema writes for records whose string
\* fields hold no double quote, the value line of every Cinema, ShotK,
\* SyncPointK, ActionK, Action-1, Action-2 and CameraPath section has exactly
\* as many tokens as the arities of the fields on its descriptor line add up to.
C26_SchemaAgreement ==
  (pc = "text" /\ input # <<>> /\ \A k \in 1..Len(input) : QuoteFreeCinema(input[k]))
    => SchemaAgrees(EncodedLines)

\* C26, amended: the same for records whose string fields hold neither a
\* double quote nor a line break and whose identifier fields are non-empty
\* and hold neither white space nor a double quote.
C26_SchemaAgreementOfTokenFields ==
  (pc = "text" /\ input # <<>> /\ \A k \in 1..Len(input) : TokenFieldsCinema(input[k]))
    => SchemaAgrees(EncodedLines)

\* a record with actions and a camera path, its fields single tokens, was
\* encoded, and the CameraPath section declares more than ten tokens
C26_Witness ==
  /\ pc = "text"
  /\ Len(input) = 1
  /\ TokenFieldsCinema(input[1])
  /\ Len(input[1].actions) >= 2
  /\ \E h \in 1..Len(EncodedLines) :
       /\ ValueSectionAt(EncodedLines, h)
       /\ LineKind(EncodedLines[h]) = "CameraPath"
       /\ DescriptorTokens(EncodedLines[h + 1]) > 10

-----------------------------------------------------------------------------
(* C27: decoding and encoding again gives the same text *)

\* the fields the format writes with :d (the type of a sync point is named
\* apart: an action's type is its variant)
IntegerFields ==
  {"action", "bilboInvisible", "bypassQueue", "cameraType", "cinematic", "disableControl",
   "doesCameraColl", "doesCameraFade", "endSyncPoint", "fadeout", "finishShot", "forceEnd",
   "forceNoWeapon", "forceUseStick", "forceUseSting", "fromCenter", "fromEnd", "fxType",
   "hasIntroTrans", "hasOutroTrans", "initialShot", "interpolate", "isDeathCinema", "letterbox",
   "lightChannels", "lookspring", "loop", "loops", "lowPriority", "nextShot", "objSaveFlag",
   "objectFlags", "popAtEnd", "positional", "relative", "repeatable", "rolling", "shot",
   "skipShot", "skippable", "subtitleInBox", "syncPoint", "transitionPop", "typeNum"}

\* the integer fields of r hold integers
WholeFields(r) == \A k \in DOMAIN r : k \in IntegerFields => r[k].f = 0

WholeElements(rs) == \A k \in 1..Len(rs) : WholeFields(rs[k])

WholeCinema(r) ==
  /\ WholeFields(r.properties)
  /\ WholeElements(r.shots)
  /\ WholeElements(r.syncPoints)
  /\ \A k \in 1..Len(r.syncPoints) : r.syncPoints[k].type.f = 0
  /\ WholeElements(r.actions)
  /\ \A k \in 1..Len(r.actions) :
       "color" \in DOMAIN r.actions[k] => \A j \in 1..4 : r.actions[k].color[j].f = 0
  /\ WholeElements(r.cameraPaths)

\* the first decoded record, encoded again, is the text that was decoded
ReencodedSame == Len(result) >= 1 /\ exportCinema(result[1]) = content

\* C27 as stated: for a record R with integers in its integer fields,
\* exportCinema(parseCinemaFile(exportCinema(R))[0]) is exportCinema(R),
\* character for character.
C27_ReencodeStable ==
  (pc = "done" /\ Len(input) = 1 /\ WholeCinema(input[1])) => ReencodedSame

\* the same for the records the tokenizer reads back as written and whose
\* text holds no negative zero
C27_StableWithoutNegativeZero ==
  (pc = "done" /\ Len(input) = 1 /\ WholeCinema(input[1]) /\ CleanCinema(input[1])
     /\ ~Contains(content, "-0.000000"))
    => ReencodedSame

\* a float between -0.0000005 and 0 is written as -0.000000 and, decoded and
\* encoded again, as 0.000000
C27_NegativeZeroChangesText ==
  (pc = "done" /\ Len(input) = 1 /\ WholeCinema(input[1]) /\ CleanCinema(input[1])
     /\ Contains(content, "-0.000000"))
    => (Len(result) >= 1 /\ exportCinema(result[1]) # content
        /\ ~Contains(exportCinema(result[1]), "-0.000000"))

-----------------------------------------------------------------------------
(* C30: a vector field with some of its tokens *)

\* C30: when at least one token but fewer than its arity is left for a field
\* of type fff, ffffff or dddd, parseValues binds the field to the tokens
\* that are left followed by 0 for each missing component, and binds no field
\* after it.
C30_PartialVectorBinding ==
  \A fs \in FieldLists :
    (call.fn = "parseValues" /\ call.headerLine = HeaderOf(fs))
      => \A k \in PartFields(fs, call.tokens) :
           /\ fs[k][2] \in {"fff", "ffffff", "dddd"}
           /\ fs[k][1] \in DOMAIN call.ret
           /\ call.ret[fs[k][1]] = ZeroFilled(fs, k, call.tokens)
           /\ \A j \in (k + 1)..Len(fs) : fs[j][1] \notin DOMAIN call.ret

\* a float triple was bound in full, the colour after it to its two tokens
\* and two zeros
C30_Witness ==
  /\ call.fn = "parseValues"
  /\ call.headerLine = " { P:fff Q:dddd }"
  /\ call.tokens = <<"10", "20", "30", "40", "0.5">>
  /\ call.ret["P"] = "10 20 30"
  /\ call.ret["Q"] = "40 0.5 0 0"

\* a box of six floats with two tokens: four zeros are filled in and the
\* integer after it is not bound
C30_SixFloatsFromTwoTokens ==
  (call.fn = "parseValues" /\ call.headerLine = " { Box:ffffff N:d }"
     /\ call.tokens = <<"1", "2">>)
    => (DOMAIN call.ret = {"Box"} /\ call.ret["Box"] = "1 2 0 0 0 0")

-----------------------------------------------------------------------------
(* Editor: the handlers of CutsceneEditor *)

\* the variables of a parseCinemaFile call
fileVars ==
  <<input, content, lines, pc, i, startIndex, cinema, headerSeen, cinemas, result, escaped,
    caught>>

\* the most elements of one collection, cinemas in the list, identifiers
\* drawn and characters of a name for which the handlers are taken
MaxElements == 3
MaxCinemas == 2
MaxIds == 3
MaxNameLen == 10

\* no file is being read and no codec function is called directly
EditorIdle == pc = "idle" /\ call.fn = "none"

\* const cinema = cinemas[selectedCinemaIndex]
CurrentCinema == editor.cinemas[editor.selectedCinemaIndex + 1]

\* setCinema(updater): the record at selectedCinemaIndex is replaced
setCinema(rec) ==
  editor' = [editor EXCEPT !.cinemas[editor.selectedCinemaIndex + 1] = rec]

\* a map that leaves the stored indexes as they are: the slip C28 rules out
KeptIndexes(elements) == elements

\* .map((x, i) => ({ ...x, index: i }))
Reindexed(elements) == [k \in 1..Len(elements) |-> [elements[k] EXCEPT !.index = k - 1]]

\* .filter(x => x.id !== id)
WithoutId(elements, id) == LET Keep(x) == x.id # id IN SelectSeq(elements, Keep)

\* .findIndex(x => x.id === id): 0-based, -1 when there is none
findIndex(elements, id) ==
  IF \E k \in 1..Len(elements) : elements[k].id = id
  THEN (CHOOSE k \in 1..Len(elements) :
          elements[k].id = id /\ \A j \in 1..(k - 1) : elements[j].id # id) - 1
  ELSE -1

\* the ids of the elements
IdsIn(elements) == {elements[k].id : k \in 1..Len(elements)}

addShot ==
  /\ EditorIdle
  /\ Len(CurrentCinema.shots) < MaxElements /\ rng.n < MaxIds
  /\ LET newShot == createDefaultShot(randomUUID(rng), Len(CurrentCinema.shots))
     IN  setCinema([CurrentCinema EXCEPT !.shots = Append(@, newShot)])
  /\ rng' = Advance(rng)
  /\ UNCHANGED <<call, fileVars>>

deleteShot(id) ==
  /\ EditorIdle
  /\ setCinema([CurrentCinema EXCEPT !.shots = Reindexed(WithoutId(@, id))])
  /\ UNCHANGED <<call, fileVars, rng>>

addSyncPoint ==
  /\ EditorIdle
  /\ Len(CurrentCinema.syncPoints) < MaxElements /\ rng.n < MaxIds
  /\ LET newSP == createDefaultSyncPoint(randomUUID(rng), Len(CurrentCinema.syncPoints), 0)
     IN  setCinema([CurrentCinema EXCEPT !.syncPoints = Append(@, newSP)])
  /\ rng' = Advance(rng)
  /\ UNCHANGED <<call, fileVars>>

deleteSyncPoint(id) ==
  /\ EditorIdle
  /\ setCinema([CurrentCinema EXCEPT !.syncPoints = Reindexed(WithoutId(@, id))])
  /\ UNCHANGED <<call, fileVars, rng>>

addAction(type) ==
  /\ EditorIdle
  /\ Len(CurrentCinema.actions) < MaxElements /\ rng.n < MaxIds
  /\ LET newAction == createDefaultAction(randomUUID(rng), type, Len(CurrentCinema.actions))
     IN  setCinema([CurrentCinema EXCEPT !.actions = Append(@, newAction)])
  /\ rng' = Advance(rng)
  /\ UNCHANGED <<call, fileVars>>

deleteAction(id) ==
  /\ EditorIdle
  /\ setCinema([CurrentCinema EXCEPT !.actions = Reindexed(WithoutId(@, id))])
  /\ UNCHANGED <<call, fileVars, rng>>

\* actions.splice(fromIndex, 1) and then actions.splice(toIndex, 0, moved),
\* both indexes 0-based and found before the removal
Moved(actions, fromIndex, toIndex) ==
  LET moved == actions[fromIndex + 1]
      rest == SubSeq(actions, 1, fromIndex) \o SubSeq(actions, fromIndex + 2, Len(actions))
      at == IF toIndex < Len(rest) THEN toIndex ELSE Len(rest)
  IN  SubSeq(rest, 1, at) \o <<moved>> \o SubSeq(rest, at + 1, Len(rest))

reorderActions(sourceId, targetId) ==
  /\ EditorIdle
  /\ sourceId # targetId
  /\ LET actions == CurrentCinema.actions
         fromIndex == findIndex(actions, sourceId)
         toIndex == findIndex(actions, targetId)
     IN  IF fromIndex = -1 \/ toIndex = -1
         THEN setCinema(CurrentCinema)
         ELSE setCinema([CurrentCinema EXCEPT
                           !.actions = Reindexed(Moved(actions, fromIndex, toIndex))])
  /\ UNCHANGED <<call, fileVars, rng>>

\* the id of an action that is no longer in the list
StaleId == "gone"

\* the handlers of the Shots, Sync Points and Actions tabs
EditorNext ==
  \/ addShot
  \/ \E id \in IdsIn(CurrentCinema.shots) : deleteShot(id)
  \/ addSyncPoint
  \/ \E id \in IdsIn(CurrentCinema.syncPoints) : deleteSyncPoint(id)
  \/ \E type \in ActionTypes : addAction(type)
  \/ \E id \in IdsIn(CurrentCinema.actions) : deleteAction(id)
  \/ \E sourceId \in IdsIn(CurrentCinema.actions) \cup {StaleId},
        targetId \in IdsIn(CurrentCinema.actions) : reorderActions(sourceId, targetId)

EditorSpec == Init /\ [][EditorNext]_vars

-----------------------------------------------------------------------------
(* C28: the editor keeps index equal to position *)

\* every shot, sync point and action of rec has index equal to its position
IndexedCinema(rec) ==
  /\ IndexedByPosition(rec.shots)
  /\ IndexedByPosition(rec.syncPoints)
  /\ IndexedByPosition(rec.actions)

\* new holds the elements of old, each once, whatever their indexes
PermutationOf(new, old) ==
  /\ Len(new) = Len(old)
  /\ \A k \in 1..Len(old) :
       Cardinality({j \in 1..Len(new) : [new[j] EXCEPT !.index = old[k].index] = old[k]}) = 1

\* what reorderActions(sourceId, targetId) made of the actions old
Reordered(old, new, sourceId, targetId) ==
  /\ PermutationOf(new, old)
  /\ IndexedByPosition(new)
  /\ IF sourceId \in IdsIn(old)
     THEN findIndex(new, sourceId) = findIndex(old, targetId)
     ELSE new = old

\* C28: from the default cinema, after any sequence of addShot, deleteShot,
\* addSyncPoint, deleteSyncPoint, addAction, deleteAction and reorderActions,
\* every shot, sync point and action has index equal to its position, and
\* reorderActions leaves the actions a permutation of the previous ones with
\* the dragged action at the position the target had.
C28_EditorIndexInvariant ==
  /\ [](\A k \in 1..Len(editor.cinemas) : IndexedCinema(editor.cinemas[k]))
  /\ [][\A sourceId \in IdsIn(CurrentCinema.actions) \cup {StaleId},
           targetId \in IdsIn(CurrentCinema.actions) :
          reorderActions(sourceId, targetId)
            => Reordered(CurrentCinema.actions, CurrentCinema'.actions, sourceId, targetId)]_vars

\* three actions were added and the last one was dragged onto the first: it
\* is first now, with index 0 and the name it was made with
C28_Witness ==
  /\ Len(CurrentCinema.actions) = 3
  /\ CurrentCinema.actions[1].name = "Action 2"
  /\ CurrentCinema.actions[1].index = 0
  /\ CurrentCinema.actions[2].name = "Action 0"
  /\ CurrentCinema.actions[2].index = 1
  /\ CurrentCinema.actions[3].name = "Action 1"
  /\ CurrentCinema.actions[3].index = 2

-----------------------------------------------------------------------------
(* Editor: the cinema list, the selection and the import *)

\* Date.now().toString(16).toUpperCase() at the time of the click
Stamps == {"19A5C3B2E10", "19A5C3B2E11"}

\* JSON.parse(JSON.stringify(cinema)): the records held here are finite
\* numbers, texts and arrays of them, which JSON writes and reads back as
\* they are
jsonCopy(rec) == rec

addCinema ==
  /\ EditorIdle
  /\ Len(editor.cinemas) < MaxCinemas /\ rng.n + 1 < MaxIds
  /\ \E stamp \in Stamps :
       LET newCinema == [createDefaultCinema(randomUUID(rng), randomUUID(Advance(rng))) EXCEPT
                           !.objName = "Cinema " \o NatToStr(Len(editor.cinemas) + 1),
                           !.guid = "NEW_GUID_" \o stamp]
       IN  editor' = [cinemas |-> Append(editor.cinemas, newCinema),
                      selectedCinemaIndex |-> Len(editor.cinemas)]
  /\ rng' = Advance(Advance(rng))
  /\ UNCHANGED <<call, fileVars>>

\* a delete that leaves the selection where it was: the slip C29 rules out
deleteCinemaKeepsSelection ==
  /\ EditorIdle
  /\ IF Len(editor.cinemas) <= 1 THEN UNCHANGED editor
     ELSE editor' =
            [editor EXCEPT !.cinemas = SubSeq(editor.cinemas, 1, editor.selectedCinemaIndex)
                                         \o SubSeq(editor.cinemas, editor.selectedCinemaIndex + 2,
                                                   Len(editor.cinemas))]
  /\ UNCHANGED <<call, fileVars, rng>>

deleteCinema ==
  /\ EditorIdle
  /\ IF Len(editor.cinemas) <= 1 THEN UNCHANGED editor
     ELSE editor' =
            [cinemas |-> SubSeq(editor.cinemas, 1, editor.selectedCinemaIndex)
                           \o SubSeq(editor.cinemas, editor.selectedCinemaIndex + 2,
                                     Len(editor.cinemas)),
             selectedCinemaIndex |->
               IF editor.selectedCinemaIndex - 1 > 0 THEN editor.selectedCinemaIndex - 1 ELSE 0]
  /\ UNCHANGED <<call, fileVars, rng>>

duplicateCinema ==
  /\ EditorIdle
  /\ Len(editor.cinemas) < MaxCinemas /\ Len(CurrentCinema.objName) <= MaxNameLen
  /\ \E stamp \in Stamps :
       LET copy == [jsonCopy(CurrentCinema) EXCEPT
                      !.objName = CurrentCinema.objName \o " (Copy)",
                      !.guid = "COPY_GUID_" \o stamp]
       IN  editor' = [cinemas |-> Append(editor.cinemas, copy),
                      selectedCinemaIndex |-> Len(editor.cinemas)]
  /\ UNCHANGED <<call, fileVars, rng>>

\* a click on the k-th button of the cinema selector bar
selectCinema(k) ==
  /\ EditorIdle
  /\ editor' = [editor EXCEPT !.selectedCinemaIndex = k]
  /\ UNCHANGED <<call, fileVars, rng>>

\* the files the user picks in the import dialog: an empty one, one with a
\* record that has a section of every kind, one with two records, and one
\* cut short in a section
ImportTexts ==
  {"",
   join(<<"// note", "stray line", "[ Cinema : 1 ]", " { GUID:s ObjName:s Duration:f }",
          "   \"G1\" \"First\" 2.50">>
          \o BlockPool[2] \o BlockPool[3] \o BlockPool[7] \o BlockPool[8] \o BlockPool[9], "\n"),
   "[ Cinema : 1 ]\n { GUID:s ObjName:s }\n   \"G1\" \"First\"\n[ Cinema : 1 ]\n { GUID:s ObjName:s }\n   \"G2\" \"Other\"",
   "[ Cinema : 1 ]\n { GUID:s ObjName:s }\n   \"G1\" \"First\"\n[ Shot5 : 1 ]\n { Shot5\\Name:s }"}

\* handleImport up to the call of parseCinemaFile: reader.onload has the
\* text of the file
ImportRead ==
  /\ EditorIdle
  /\ \E text \in ImportTexts : content' = text
  /\ pc' = "text"
  /\ UNCHANGED <<editor, call, input, lines, i, startIndex, cinema, headerSeen, cinemas, result,
                 escaped, caught, rng>>

\* handleImport after parseCinemaFile returned: a non-empty result replaces
\* the list and selects its first record, an empty one raises the alert; the
\* handler's locals are gone
ImportDone ==
  /\ pc = "done"
  /\ IF ~escaped /\ Len(result) > 0
     THEN editor' = [cinemas |-> result, selectedCinemaIndex |-> 0]
     ELSE UNCHANGED editor
  /\ input' = <<>> /\ content' = "" /\ lines' = <<>> /\ pc' = "idle" /\ i' = 0
  /\ startIndex' = 0 /\ cinema' = NewCinema /\ headerSeen' = FALSE /\ cinemas' = <<>>
  /\ result' = <<>> /\ escaped' = FALSE /\ caught' = FALSE
  /\ UNCHANGED <<call, rng>>

\* the handlers of the cinema selector bar and of the import button
SessionNext ==
  \/ addCinema
  \/ deleteCinema
  \/ duplicateCinema
  \/ \E k \in 0..(Len(editor.cinemas) - 1) : selectCinema(k)
  \/ ImportRead
  \/ DecodeStep
  \/ ImportDone

SessionSpec == Init /\ [][SessionNext]_vars

-----------------------------------------------------------------------------
(* C29: the selected cinema exists *)

\* cinemas[selectedCinemaIndex] exists
SelectionValid ==
  /\ Len(editor.cinemas) >= 1
  /\ editor.selectedCinemaIndex \in 0..(Len(editor.cinemas) - 1)

\* C29: after any sequence of addCinema, deleteCinema, duplicateCinema,
\* selections and imports the list of cinemas is non-empty and
\* selectedCinemaIndex is a position of it, and an import whose decoding
\* gives no record leaves the list and the selection as they were.
C29_SelectionInvariant ==
  /\ []SelectionValid
  /\ [][(pc # "idle" /\ (pc = "done" => Len(result) = 0)) => editor' = editor]_vars

\* a file cut short in a section was decoded to no record while the copy of
\* the default cinema, second of two, was selected
C29_Witness ==
  /\ pc = "done"
  /\ caught
  /\ result = <<>>
  /\ Len(editor.cinemas) = 2
  /\ editor.selectedCinemaIndex = 1
  /\ editor.cinemas[2].objName = "New Cinema (Copy)"
=============================================================================
